---- MODULE Spec2Model ----
(***************************************************************************)
(* A model of the hybrid RAG ingestion / retrieval layer of                *)
(* iron_dillo_cybersandbox_ai/backend/rag.py.                              *)
(*                                                                         *)
(* Texts are strings, read one character at a time with SubSeq.  The       *)
(* specifications share the variables: SpecChunk runs the fixed-mode loop  *)
(* of _chunk_text one iteration at a time; SpecQuery runs query_rag        *)
(* against an index double that answers with an arbitrary candidate list;  *)
(* Spec runs ingest_upload and query_rag against one persistent index;     *)
(* SpecIngest ingests one generated document into an empty index;          *)
(* SpecBatch runs ingest_files; SpecConcurrent runs two ingest_upload      *)
(* executions with their steps interleaved; SpecLimit calls query_rag      *)
(* with top_k <= 0; SpecParagraph applies _chunk_text in either mode to    *)
(* texts with blank lines; SpecProfile runs query_rag for the profile of   *)
(* its query; SpecWindow runs ingest_upload and query_rag on an index      *)
(* larger than a query fetches; SpecStore runs tools/rag_store.py.         *)
(***************************************************************************)
EXTENDS Integers, Sequences, FiniteSets, TLC

VARIABLES
    \* _chunk_text (rag.py 82-108): its arguments, the locals of the
    \* fixed-mode loop, the chunks and where the call is
    ch_text, ch_size, ch_overlap, ch_mode, ch_start, ch_end, ch_chunks, ch_pc,
    \* the vector index: the collections that exist and the entries stored
    collections, store,
    \* one execution of ingest_upload: where it is, its arguments and locals,
    \* the upsert calls it has issued and how it ended
    in_pc, in_upload, in_mode, in_chunks, in_ids, in_metas, in_embeddings,
    in_upserts, in_out,
    \* the calls that execution has made to the embedding provider and to the
    \* vector index, in order
    in_calls,
    \* one execution of query_rag: where it is, its arguments and locals and
    \* how it ended
    q_pc, q_args, q_profile, q_embedding, q_results, q_out,
    \* the calls that execution has made to its collaborators, in order
    q_calls,
    \* one execution of ingest_files: where it is, the paths not yet done,
    \* the summaries collected and how it ended
    b_pc, b_queue, b_results, b_out,
    \* a second execution of ingest_upload, in another thread: where it is,
    \* its arguments, what it hands to the upsert, how it ended, the index
    \* content when the two executions started, and which of the two wrote
    \* to the index last
    w_pc, w_upload, w_mode, w_args, w_out, w_base, w_last,
    \* tools/rag_store.py: the documents a RAGStore holds, the last call made
    \* to it and what that call answered
    rs_documents, rs_call, rs_out

toolVars == <<rs_documents, rs_call, rs_out>>

chunkVars == <<ch_text, ch_size, ch_overlap, ch_mode, ch_start, ch_end, ch_chunks, ch_pc>>

indexVars == <<collections, store>>

ingestVars ==
    <<in_pc, in_upload, in_mode, in_chunks, in_ids, in_metas, in_embeddings,
      in_upserts, in_out, in_calls>>

queryVars == <<q_pc, q_args, q_profile, q_embedding, q_results, q_out, q_calls>>

batchVars == <<b_pc, b_queue, b_results, b_out>>

writerVars == <<w_pc, w_upload, w_mode, w_args, w_out, w_base, w_last>>

vars == <<toolVars, chunkVars, indexVars, ingestVars, queryVars, batchVars, writerVars>>

(***************************************************************************)
(* Bounds of the model.                                                    *)
(***************************************************************************)
MaxTextLen == 4
MaxChunkSize == 3
MaxOverlap == 3
\* the fixed-mode loop is cut after this many chunks; a terminating run over
\* a text of at most MaxTextLen characters never needs more than MaxTextLen
MaxChunks == MaxTextLen + 2
\* the largest top_k a caller passes, and the longest candidate list the
\* index double answers with
MaxTopK == 2
MaxCandidates == 4
\* documents a RAGStore holds at most, and the largest limit a search is
\* called with
MaxDocuments == 3
MaxLimit == 2
\* the pieces a text handed to _chunk_text in either mode is written with
MaxPieces == 3
\* the words a text handed to _extract_threat_profile is written with
MaxWords == 3

(***************************************************************************)
(* Python built-ins.                                                       *)
(***************************************************************************)
Max(a, b) == IF a >= b THEN a ELSE b

Min(a, b) == IF a <= b THEN a ELSE b

\* text[start:end] for 0 <= start, 0 <= end
Slice(text, start, end) == SubSeq(text, start + 1, Min(end, Len(text)))

RECURSIVE Repeat(_, _)
\* unit * n
Repeat(unit, n) == IF n = 0 THEN "" ELSE unit \o Repeat(unit, n - 1)

\* the i-th character of a text (1-based)
Ch(text, i) == SubSeq(text, i, i)

RECURSIVE StringsUpTo(_, _)
\* all strings over the characters S of length at most n
StringsUpTo(S, n) ==
    IF n = 0 THEN {""}
    ELSE LET shorter == StringsUpTo(S, n - 1)
         IN  shorter \cup {s \o c : s \in shorter, c \in S}

(***************************************************************************)
(* _chunk_text, fixed mode.                                                *)
(***************************************************************************)
\* a window one character wider than chunk_size
WindowEndWider(start, chunk_size, text_length) == Min(start + chunk_size + 1, text_length)

\* rag.py 103: end = min(start + chunk_size, text_length)
WindowEnd(start, chunk_size, text_length) == Min(start + chunk_size, text_length)

\* a window start that skips the character after the previous window
NextStartSkipping(end, overlap) == Max(0, end - overlap) + 1

\* rag.py 107: start = max(0, end - overlap)
NextStart(end, overlap) == Max(0, end - overlap)

ChunkAlphabet == {"a", "b"}

\* the call _chunk_text(text, chunk_size, overlap, "fixed") up to rag.py 101
ChunkCalled ==
    /\ ch_text \in StringsUpTo(ChunkAlphabet, MaxTextLen)
    /\ ch_size \in 1..MaxChunkSize
    /\ ch_overlap \in 0..MaxOverlap
    /\ ch_mode = "fixed"
    /\ ch_start = 0
    /\ ch_end = 0
    /\ ch_chunks = <<>>
    /\ ch_pc = "loop"

\* one iteration of the while loop, rag.py 102-107
ChunkLoopIter ==
    /\ ch_pc = "loop"
    /\ ch_start < Len(ch_text)
    /\ Len(ch_chunks) < MaxChunks
    /\ ch_end' = WindowEnd(ch_start, ch_size, Len(ch_text))
    /\ ch_chunks' = Append(ch_chunks, Slice(ch_text, ch_start, ch_end'))
    /\ IF ch_end' = Len(ch_text)
          THEN /\ ch_pc' = "done"
               /\ ch_start' = ch_start
          ELSE /\ ch_pc' = "loop"
               /\ ch_start' = NextStart(ch_end', ch_overlap)
    /\ UNCHANGED <<ch_text, ch_size, ch_overlap, ch_mode>>
    /\ UNCHANGED <<toolVars, indexVars, ingestVars, queryVars, batchVars, writerVars>>

\* the loop condition fails, rag.py 102 and 108
ChunkLoopExit ==
    /\ ch_pc = "loop"
    /\ ~(ch_start < Len(ch_text))
    /\ ch_pc' = "done"
    /\ UNCHANGED <<ch_text, ch_size, ch_overlap, ch_mode, ch_start, ch_end, ch_chunks>>
    /\ UNCHANGED <<toolVars, indexVars, ingestVars, queryVars, batchVars, writerVars>>

NextChunk == ChunkLoopIter \/ ChunkLoopExit

(***************************************************************************)
(* Text: characters, str.lower, _tokenize.                                 *)
(***************************************************************************)
LowerLetters ==
    {
     "a", "b", "c", "d", "e", "f", "g", "h", "i", "j", "k", "l", "m",
     "n", "o", "p", "q", "r", "s", "t", "u", "v", "w", "x", "y", "z"
    }

UpperLetters ==
    {
     "A", "B", "C", "D", "E", "F", "G", "H", "I", "J", "K", "L", "M",
     "N", "O", "P", "Q", "R", "S", "T", "U", "V", "W", "X", "Y", "Z"
    }

Digits == {"0", "1", "2", "3", "4", "5", "6", "7", "8", "9"}

\* \s of the re module, ASCII
Whitespace == {" ", "\t", "\n", "\r", "\f"}

\* \w of the re module, ASCII
WordChars == LowerLetters \cup UpperLetters \cup Digits \cup {"_"}

\* rag.py 116: the character class [a-zA-Z0-9_-]
TokenChars == LowerLetters \cup UpperLetters \cup Digits \cup {"_", "-"}

LowerCaseOf ==
    [
     A |-> "a", B |-> "b", C |-> "c", D |-> "d", E |-> "e",
     F |-> "f", G |-> "g", H |-> "h", I |-> "i", J |-> "j",
     K |-> "k", L |-> "l", M |-> "m", N |-> "n", O |-> "o",
     P |-> "p", Q |-> "q", R |-> "r", S |-> "s", T |-> "t",
     U |-> "u", V |-> "v", W |-> "w", X |-> "x", Y |-> "y",
     Z |-> "z"
    ]

LowerChar(c) == IF c \in UpperLetters THEN LowerCaseOf[c] ELSE c

RECURSIVE LowerText(_)
\* str.lower(), one half of the text after the other
LowerText(text) ==
    IF Len(text) = 0 THEN ""
    ELSE IF Len(text) = 1 THEN LowerChar(text)
    ELSE LET half == Len(text) \div 2
         IN  LowerText(SubSeq(text, 1, half)) \o LowerText(SubSeq(text, half + 1, Len(text)))

\* part in text
Contains(text, part) ==
    \E i \in 1..(Len(text) - Len(part) + 1) : SubSeq(text, i, i + Len(part) - 1) = part

RECURSIVE RunLength(_, _, _, _)
\* how many characters after the first `pos`, at most `most`, are in a row
\* in the class
RunLength(text, pos, class, most) ==
    IF most = 0 \/ pos >= Len(text) \/ Ch(text, pos + 1) \notin class THEN 0
    ELSE 1 + RunLength(text, pos + 1, class, most - 1)

\* re.findall(r"[a-zA-Z0-9_-]+", text): the maximal runs of token characters
TokenRuns(text) ==
    LET starts == {i \in 1..Len(text) :
                     /\ Ch(text, i) \in TokenChars
                     /\ i = 1 \/ Ch(text, i - 1) \notin TokenChars}
    IN  {SubSeq(text, i, i - 1 + RunLength(text, i - 1, TokenChars, Len(text))) : i \in starts}

\* rag.py 39-57
STOPWORDS ==
    {"the", "a", "an", "and", "or", "for", "to", "of", "in", "on", "with",
     "by", "is", "are", "be", "about", "from"}

\* rag.py 115-117: _tokenize
Tokenize(text) ==
    LET words == {word \in TokenRuns(LowerText(text)) : Len(word) > 2}
    IN  {word \in words : word \notin STOPWORDS}

(***************************************************************************)
(* Regular expressions of rag.py, matched with re.IGNORECASE.  A pattern   *)
(* is a tuple of alternatives, an alternative a tuple of elements: a word  *)
(* boundary \b, a literal (lower case) or a character class repeated       *)
(* between lo and hi times.  Matching reads the lower-cased text.          *)
(***************************************************************************)
WordBoundary == [kind |-> "b", lit |-> "", class |-> {}, lo |-> 0, hi |-> 0]

Literal(str) == [kind |-> "lit", lit |-> str, class |-> {}, lo |-> 0, hi |-> 0]

Class(set, lo, hi) == [kind |-> "class", lit |-> "", class |-> set, lo |-> lo, hi |-> hi]

\* \bstr\b
Word(str) == <<WordBoundary, Literal(str), WordBoundary>>

IsWordAt(text, i) == i >= 1 /\ i <= Len(text) /\ Ch(text, i) \in WordChars

\* \b after the first `pos` characters of the text
AtWordBoundary(text, pos) == IsWordAt(text, pos) # IsWordAt(text, pos + 1)

RECURSIVE MatchEnds(_, _, _, _)
\* the positions at which elements k.. of the alternative can end when
\* they start after the first `pos` characters
MatchEnds(text, pos, alt, k) ==
    IF k > Len(alt) THEN {pos}
    ELSE LET e == alt[k]
         IN  CASE e.kind = "b" ->
                    IF AtWordBoundary(text, pos)
                       THEN MatchEnds(text, pos, alt, k + 1) ELSE {}
               [] e.kind = "lit" ->
                    IF /\ pos + Len(e.lit) <= Len(text)
                       /\ SubSeq(text, pos + 1, pos + Len(e.lit)) = e.lit
                       THEN MatchEnds(text, pos + Len(e.lit), alt, k + 1) ELSE {}
               [] e.kind = "class" ->
                    UNION {MatchEnds(text, pos + n, alt, k + 1) :
                             n \in e.lo..RunLength(text, pos, e.class,
                                                   IF e.hi < 0 THEN Len(text) ELSE e.hi)}

\* pattern.search(text) on the lower-cased text: some alternative matches
\* somewhere
Search(pattern, lowered) ==
    \E i \in 1..Len(pattern) : \E pos \in 0..Len(lowered) :
        MatchEnds(lowered, pos, pattern[i], 1) # {}

\* rag.py 17-27, in declaration order
THREAT_TAGS ==
    <<"ransomware", "phishing", "supply_chain", "zero_day", "credential_theft",
      "cloud", "malware", "c2", "vulnerability">>

CveId ==
    <<WordBoundary, Literal("cve-"), Class(Digits, 4, 4), Literal("-"),
      Class(Digits, 4, 7), WordBoundary>>

THREAT_PATTERNS ==
    [ransomware |-> <<Word("ransomware")>>,
     phishing |-> <<Word("phish"), Word("phishing"), Word("phished")>>,
     supply_chain |->
        <<<<WordBoundary, Literal("supply"), Class(Whitespace \cup {"-"}, 0, 1),
            Literal("chain"), WordBoundary>>>>,
     zero_day |->
        <<<<WordBoundary, Literal("zero"), Class(Whitespace \cup {"-"}, 0, 1),
            Literal("day"), WordBoundary>>>>,
     credential_theft |-> <<Word("credential"), Word("credentials"), Word("password")>>,
     cloud |-> <<Word("cloud"), Word("container"), Word("kubernetes"), Word("iam")>>,
     malware |-> <<Word("malware"), Word("trojan"), Word("loader")>>,
     c2 |-> <<Word("command and control"), Word("c2")>>,
     vulnerability |-> <<CveId, Word("vulnerability")>>]

\* rag.py 29-37, in declaration order
TACTIC_TAGS ==
    <<"initial_access", "execution", "persistence", "privilege_escalation",
      "defense_evasion", "lateral_movement", "collection_exfiltration">>

TACTIC_PATTERNS ==
    [initial_access |-> <<Word("initial access"), Word("phishing"), Word("exploit")>>,
     execution |-> <<Word("execution"), Word("powershell"), Word("script")>>,
     persistence |-> <<Word("persistence"), Word("autorun"), Word("registry")>>,
     privilege_escalation |-> <<Word("privilege escalation"), Word("sudo")>>,
     defense_evasion |->
        <<Word("defense evasion"), <<WordBoundary, Literal("obfuscat")>>>>,
     lateral_movement |-> <<Word("lateral movement"), Word("remote service")>>,
     collection_exfiltration |->
        <<Word("exfiltrat"), Word("data theft"), Word("collection")>>]

\* rag.py 123: \b(?:CVE-\d{4}-\d{4,7}|T\d{4}(?:\.\d{3})?)\b, the alternatives
\* in the order the matcher tries them (the optional group first)
INDICATOR_PATTERN ==
    <<CveId,
      <<WordBoundary, Literal("t"), Class(Digits, 4, 4), Literal("."),
        Class(Digits, 3, 3), WordBoundary>>,
      <<WordBoundary, Literal("t"), Class(Digits, 4, 4), WordBoundary>>>>

SetMax(S) == CHOOSE x \in S : \A y \in S : y <= x

\* where the match starting after `pos` characters ends; 0 for no match (a
\* match is never empty).  The first alternative that matches wins, and its
\* single greedy repetition takes the longest run.
MatchEndAt(pattern, lowered, pos) ==
    LET hits == {i \in 1..Len(pattern) : MatchEnds(lowered, pos, pattern[i], 1) # {}}
    IN  IF hits = {} THEN 0
        ELSE LET first == CHOOSE i \in hits : \A j \in hits : i <= j
             IN  SetMax(MatchEnds(lowered, pos, pattern[first], 1))

SetMin(S) == CHOOSE x \in S : \A y \in S : x <= y

RECURSIVE FindAllFrom(_, _, _, _)
\* re.findall(pattern, text): the leftmost non-overlapping matches, as
\* written in the text
FindAllFrom(pattern, text, lowered, pos) ==
    LET starts == {p \in pos..(Len(text) - 1) : MatchEndAt(pattern, lowered, p) # 0}
    IN  IF starts = {} THEN {}
        ELSE LET start == SetMin(starts)
                 end == MatchEndAt(pattern, lowered, start)
             IN  {SubSeq(text, start + 1, end)} \cup FindAllFrom(pattern, text, lowered, end)

\* the characters an indicator can hold, in code point order
CodePointOrder == "-.0123456789ABCDEFGHIJKLMNOPQRSTUVWXYZ_abcdefghijklmnopqrstuvwxyz"

Ord(c) == CHOOSE i \in 1..Len(CodePointOrder) : Ch(CodePointOrder, i) = c

RECURSIVE StrLess(_, _)
\* a < b for Python strings
StrLess(a, b) ==
    IF b = "" THEN FALSE
    ELSE IF a = "" THEN TRUE
    ELSE IF Head(a) = Head(b) THEN StrLess(Tail(a), Tail(b))
    ELSE Ord(Head(a)) < Ord(Head(b))

RECURSIVE DescendingStrings(_)
\* the strings from the greatest to the least
DescendingStrings(S) ==
    IF S = {} THEN <<>>
    ELSE LET greatest == CHOOSE x \in S : \A y \in S \ {x} : StrLess(y, x)
         IN  <<greatest>> \o DescendingStrings(S \ {greatest})

RECURSIVE SortedStrings(_)
\* sorted(set_of_strings)
SortedStrings(S) ==
    IF S = {} THEN <<>>
    ELSE LET least == CHOOSE x \in S : \A y \in S \ {x} : StrLess(x, y)
         IN  <<least>> \o SortedStrings(S \ {least})

\* rag.py 120-124: _extract_threat_profile
ExtractThreatProfile(text) ==
    LET lowered == LowerText(text)
    IN  [tags |-> SelectSeq(THREAT_TAGS, LAMBDA tag : Search(THREAT_PATTERNS[tag], lowered)),
         tactics |-> SelectSeq(TACTIC_TAGS, LAMBDA tag : Search(TACTIC_PATTERNS[tag], lowered)),
         indicators |-> SortedStrings(FindAllFrom(INDICATOR_PATTERN, text, lowered, 0))]

(***************************************************************************)
(* security.py: sanitize_text.  Its patterns are matched as written, case  *)
(* kept.                                                                   *)
(***************************************************************************)
\* a class repeated lo times or more
AtLeast(set, lo) == Class(set, lo, -1)

Optional(set) == Class(set, 0, 1)

Letters == LowerLetters \cup UpperLetters

\* security.py 14: [A-Za-z0-9._%+-]+@[A-Za-z0-9.-]+\.[A-Za-z]{2,}
EMAIL_RE ==
    <<<<AtLeast(Letters \cup Digits \cup {".", "_", "%", "+", "-"}, 1),
        Literal("@"),
        AtLeast(Letters \cup Digits \cup {".", "-"}, 1),
        Literal("."),
        AtLeast(Letters, 2)>>>>

Separator == Optional({"-", "."} \cup Whitespace)

\* \+?1[-.\s]?
CountryCode == <<Optional({"+"}), Literal("1"), Separator>>

\* \(\d{3}\)
AreaInParentheses == <<Literal("("), Class(Digits, 3, 3), Literal(")")>>

\* [-.\s]?\d{3}[-.\s]?\d{4}\b
Subscriber ==
    <<Separator, Class(Digits, 3, 3), Separator, Class(Digits, 4, 4), WordBoundary>>

\* security.py 15:
\* \b(?:\+?1[-.\s]?)?(?:\(\d{3}\)|\d{3})[-.\s]?\d{3}[-.\s]?\d{4}\b, the
\* optional group and the alternation written out in the order re tries them
PHONE_RE ==
    <<<<WordBoundary>> \o CountryCode \o AreaInParentheses \o Subscriber,
      <<WordBoundary>> \o CountryCode \o <<Class(Digits, 3, 3)>> \o Subscriber,
      <<WordBoundary>> \o AreaInParentheses \o Subscriber,
      <<WordBoundary>> \o <<Class(Digits, 3, 3)>> \o Subscriber>>

\* security.py 16: \b\d{3}-\d{2}-\d{4}\b
SSN_RE ==
    <<<<WordBoundary, Class(Digits, 3, 3), Literal("-"), Class(Digits, 2, 2),
        Literal("-"), Class(Digits, 4, 4), WordBoundary>>>>

\* security.py 66: \b([A-Z][a-z]+)\s([A-Z][a-z]+)\b
NAME_RE ==
    <<<<WordBoundary, Class(UpperLetters, 1, 1), AtLeast(LowerLetters, 1),
        Class(Whitespace, 1, 1), Class(UpperLetters, 1, 1), AtLeast(LowerLetters, 1),
        WordBoundary>>>>

\* the places of the text where a match of the pattern can start
MatchStarts(pattern, text) ==
    {p \in 0..(Len(text) - 1) : MatchEndAt(pattern, text, p) # 0}

RECURSIVE SubFrom(_, _, _, _, _)
\* pattern.sub(repl, text) from `pos` on: every leftmost match that does not
\* overlap the one before is replaced
SubFrom(pattern, repl, text, pos, starts) ==
    LET later == {p \in starts : p >= pos}
    IN  IF later = {} THEN SubSeq(text, pos + 1, Len(text))
        ELSE LET start == SetMin(later)
                 end == MatchEndAt(pattern, text, start)
             IN  SubSeq(text, pos + 1, start) \o repl
                    \o SubFrom(pattern, repl, text, end, starts)

Sub(pattern, repl, text) == SubFrom(pattern, repl, text, 0, MatchStarts(pattern, text))

\* security.py 60-67: sanitize_text
SanitizeText(text) ==
    Sub(NAME_RE, "CLIENT_NAME",
        Sub(SSN_RE, "<SSN>", Sub(PHONE_RE, "<PHONE>", Sub(EMAIL_RE, "<EMAIL>", text))))

(***************************************************************************)
(* Numbers.  A float is modelled by the exact rational [n, d] with d > 0   *)
(* it approximates; round(x, 6) gives an integer count of millionths.      *)
(***************************************************************************)
Abs(a) == IF a < 0 THEN -a ELSE a

RECURSIVE Gcd(_, _)
Gcd(a, b) == IF b = 0 THEN a ELSE Gcd(b, a % b)

\* the rational n/d in lowest terms with a positive denominator
Frac(n, d) ==
    LET g == Gcd(Abs(n), Abs(d))
        sign == IF d < 0 THEN -1 ELSE 1
    IN  [n |-> sign * (n \div g), d |-> sign * (d \div g)]

RatAdd(a, b) == Frac(a.n * b.d + b.n * a.d, a.d * b.d)

RatMul(a, b) == Frac(a.n * b.n, a.d * b.d)

RatDiv(a, b) == Frac(a.n * b.d, a.d * b.n)

RatLess(a, b) == a.n * b.d < b.n * a.d

RatLeq(a, b) == a.n * b.d <= b.n * a.d

RatMax(a, b) == IF RatLess(a, b) THEN b ELSE a

Zero == Frac(0, 1)

One == Frac(1, 1)

\* rag.py 275-278 and 334: round(value, 6)
Decimals == 6

RECURSIVE ShiftDigits(_, _, _, _)
\* `digits` steps of long division by d: <<quotient, remainder>>
ShiftDigits(quotient, remainder, d, digits) ==
    IF digits = 0 THEN <<quotient, remainder>>
    ELSE ShiftDigits(quotient * 10 + (remainder * 10) \div d,
                     (remainder * 10) % d, d, digits - 1)

\* round(x, 6) in millionths, ties to even
Round6(x) ==
    LET scaled == ShiftDigits(x.n \div x.d, x.n % x.d, x.d, Decimals)
        q == scaled[1]
        r == scaled[2]
    IN  IF 2 * r > x.d THEN q + 1
        ELSE IF 2 * r < x.d THEN q
        ELSE q + (q % 2)

\* 1.0, in millionths
RECURSIVE PowerOfTen(_)
PowerOfTen(k) == IF k = 0 THEN 1 ELSE 10 * PowerOfTen(k - 1)

Million == PowerOfTen(Decimals)

(***************************************************************************)
(* QueryOptions and the scoring helpers.                                   *)
(***************************************************************************)
\* rag.py 66-68: the weights, in tenths
WeightScale == 10
SemanticWeight == 7
KeywordWeight == 2
ThreatWeight == 1

\* rag.py 303-308: QueryOptions(top_k, retrieval_mode, doc_ids, required_threat_tags)
QueryOptions(top_k, retrieval_mode, doc_ids, required_threat_tags) ==
    [top_k |-> top_k,
     retrieval_mode |-> retrieval_mode,
     semantic_weight |-> Frac(SemanticWeight, WeightScale),
     keyword_weight |-> Frac(KeywordWeight, WeightScale),
     threat_weight |-> Frac(ThreatWeight, WeightScale),
     doc_ids |-> doc_ids,
     required_threat_tags |-> required_threat_tags]

Range(seq) == {seq[i] : i \in 1..Len(seq)}

\* a metadata value is a dict (a function on its keys) or None
NoneMetadata == [None |-> TRUE]

EmptyDict == [key \in {} |-> TRUE]

IsNone(metadata) == "None" \in DOMAIN metadata

\* rag.py 260 and 327: metadata or {}
MetadataOrEmpty(metadata) ==
    IF IsNone(metadata) \/ DOMAIN metadata = {} THEN EmptyDict ELSE metadata

\* set(metadata.get("threat_tags", []))
DocTags(metadata) ==
    IF "threat_tags" \in DOMAIN metadata THEN Range(metadata.threat_tags) ELSE {}

\* rag.py 216-221: _keyword_overlap
KeywordOverlap(query, text) ==
    LET query_tokens == Tokenize(query)
        text_tokens == Tokenize(text)
    IN  IF query_tokens = {} \/ text_tokens = {} THEN Zero
        ELSE Frac(Cardinality(query_tokens \cap text_tokens), Cardinality(query_tokens))

\* an alignment that divides by the number of the document's tags
ThreatAlignmentByDocument(query_profile, metadata) ==
    IF query_profile.tags = <<>> \/ DocTags(metadata) = {} THEN Zero
    ELSE Frac(Cardinality(DocTags(metadata) \cap Range(query_profile.tags)),
              Cardinality(DocTags(metadata)))

\* rag.py 224-231: _threat_alignment
ThreatAlignment(query_profile, metadata) ==
    IF query_profile.tags = <<>> THEN Zero
    ELSE LET doc_tags == DocTags(metadata)
         IN  IF doc_tags = {} THEN Zero
             ELSE Frac(Cardinality(doc_tags \cap Range(query_profile.tags)),
                       Len(query_profile.tags))

\* a score that uses the size of the distance instead of clamping it
NormalizeSemanticScoreAbs(distance) ==
    RatDiv(One, RatAdd(One, Frac(Abs(distance.n), distance.d)))

\* a score that does not clamp the distance
NormalizeSemanticScoreUnclamped(distance) ==
    RatDiv(One, RatAdd(One, distance))

\* rag.py 234-235: _normalize_semantic_score
NormalizeSemanticScore(distance) ==
    RatDiv(One, RatAdd(One, RatMax(distance, Zero)))

\* a filter that forgets the doc_ids allow-list
PassesFiltersTagsOnly(metadata, options) ==
    options.required_threat_tags = <<>>
        \/ Range(options.required_threat_tags) \subseteq DocTags(metadata)

\* rag.py 238-245: _passes_filters.  metadata.get("doc_id") is None for a
\* missing key, and None is in no tuple of document ids.
PassesFilters(metadata, options) ==
    IF /\ options.doc_ids # <<>>
       /\ ~("doc_id" \in DOMAIN metadata /\ metadata.doc_id \in Range(options.doc_ids))
       THEN FALSE
    ELSE IF /\ options.required_threat_tags # <<>>
            /\ ~(Range(options.required_threat_tags) \subseteq DocTags(metadata))
       THEN FALSE
    ELSE TRUE

(***************************************************************************)
(* _chunk_text as a function: both modes.                                  *)
(***************************************************************************)
\* rag.py 85-86
DefaultChunkSize == 1000
DefaultOverlap == 150

RECURSIVE FixedChunksFrom(_, _, _, _)
\* rag.py 99-108, the loop from window start `start` on.  The recursion ends
\* only if the window advances; it is used with overlap < chunk_size.
FixedChunksFrom(text, chunk_size, overlap, start) ==
    IF ~(start < Len(text)) THEN <<>>
    ELSE LET end == WindowEnd(start, chunk_size, Len(text))
         IN  <<Slice(text, start, end)>> \o
                (IF end = Len(text) THEN <<>>
                 ELSE FixedChunksFrom(text, chunk_size, overlap, NextStart(end, overlap)))

RECURSIVE StripLeft(_)
StripLeft(text) ==
    IF text # "" /\ Head(text) \in Whitespace THEN StripLeft(Tail(text)) ELSE text

RECURSIVE StripRight(_)
StripRight(text) ==
    IF text # "" /\ Ch(text, Len(text)) \in Whitespace
       THEN StripRight(SubSeq(text, 1, Len(text) - 1)) ELSE text

\* str.strip()
Strip(text) == StripRight(StripLeft(text))

\* a separator that is one line break
LineBreak(length) == <<<<Literal("\n")>>>>

\* rag.py 90: \n\s*\n for a text of the given length
ParagraphBreak(length) == <<<<Literal("\n"), Class(Whitespace, 0, length), Literal("\n")>>>>

RECURSIVE SplitFrom(_, _, _)
\* re.split(r"\n\s*\n", text): the parts, `from` being the end of the last
\* separator and `pos` the place the scan has reached
SplitFrom(text, from, pos) ==
    LET starts == {p \in pos..(Len(text) - 1) :
                     MatchEndAt(ParagraphBreak(Len(text)), text, p) # 0}
    IN  IF starts = {} THEN <<SubSeq(text, from + 1, Len(text))>>
        ELSE LET start == SetMin(starts)
                 end == MatchEndAt(ParagraphBreak(Len(text)), text, start)
             IN  <<SubSeq(text, from + 1, start)>> \o SplitFrom(text, end, end)

RECURSIVE ChunkParagraphs(_, _, _)
\* rag.py 91-97
ChunkParagraphs(paragraphs, chunk_size, overlap) ==
    IF paragraphs = <<>> THEN <<>>
    ELSE (IF Len(Head(paragraphs)) <= chunk_size THEN <<Head(paragraphs)>>
          ELSE FixedChunksFrom(Head(paragraphs), chunk_size, overlap, 0))
            \o ChunkParagraphs(Tail(paragraphs), chunk_size, overlap)

\* rag.py 82-108: _chunk_text
ChunkText(text, chunk_size, overlap, chunk_mode) ==
    IF chunk_mode = "paragraph"
       THEN LET parts == SplitFrom(text, 0, 0)
                stripped == [i \in 1..Len(parts) |-> Strip(parts[i])]
                paragraphs == SelectSeq(stripped, LAMBDA part : part # "")
            IN  ChunkParagraphs(paragraphs, chunk_size, overlap)
    ELSE FixedChunksFrom(text, chunk_size, overlap, 0)

\* rag.py 90: the paragraphs of the text
Paragraphs(text) ==
    LET parts == SplitFrom(text, 0, 0)
        stripped == [i \in 1..Len(parts) |-> Strip(parts[i])]
    IN  SelectSeq(stripped, LAMBDA part : part # "")

\* rag.py 102-107: the window of the loop never advances when the overlap
\* is no smaller than the chunk size and the text handed to the loop (the
\* whole text, or a paragraph longer than chunk_size) is longer than one
\* window
LoopsForever(text, chunk_size, overlap, chunk_mode) ==
    /\ overlap >= chunk_size
    /\ IF chunk_mode = "paragraph"
          THEN \E i \in 1..Len(Paragraphs(text)) : Len(Paragraphs(text)[i]) > chunk_size
       ELSE Len(text) > chunk_size

\* the call _chunk_text(text, chunk_size, overlap, chunk_mode), made
ChunkTextCalled(texts) ==
    /\ ch_text \in texts
    /\ ch_size \in 1..MaxChunkSize
    /\ ch_overlap \in 0..MaxOverlap
    /\ ch_mode \in {"fixed", "paragraph"}
    /\ ch_start = 0
    /\ ch_end = 0
    /\ ch_chunks = <<>>
    /\ ch_pc = "called"

\* rag.py 82-108: the call returns its chunks
ChunkTextReturns ==
    /\ ch_pc = "called"
    /\ ~LoopsForever(ch_text, ch_size, ch_overlap, ch_mode)
    /\ ch_chunks' = ChunkText(ch_text, ch_size, ch_overlap, ch_mode)
    /\ ch_pc' = "done"
    /\ UNCHANGED <<ch_text, ch_size, ch_overlap, ch_mode, ch_start, ch_end>>
    /\ UNCHANGED <<toolVars, indexVars, ingestVars, queryVars, batchVars, writerVars>>

\* rag.py 102-107: the call appends the same chunk again and again and never
\* returns
ChunkTextLoops ==
    /\ ch_pc = "called"
    /\ LoopsForever(ch_text, ch_size, ch_overlap, ch_mode)
    /\ ch_pc' = "looping"
    /\ UNCHANGED <<ch_text, ch_size, ch_overlap, ch_mode, ch_start, ch_end, ch_chunks>>
    /\ UNCHANGED <<toolVars, indexVars, ingestVars, queryVars, batchVars, writerVars>>

(***************************************************************************)
(* Ranking: the vector-mode loop and _hybrid_rescore.  A candidate is one  *)
(* position of the parallel arrays the index answers with:                 *)
(* [id, distance, metadata, document].                                     *)
(***************************************************************************)
\* what the index double holds: the two candidates of
\* tests/test_cybersandbox_rag.py 23-36, then candidates without metadata,
\* without one of the keys, with a negative distance, with equal distances,
\* with distances so close that the rounded scores meet, with names and
\* addresses in the documents and with a document of more than 400
\* characters
CandidatePool ==
    {[id |-> "docA:0", distance |-> Frac(2, 10),
      metadata |-> [doc_id |-> "docA", threat_tags |-> <<"ransomware", "vulnerability">>],
      document |-> "Ransomware operators exploited CVE-2024-3400 for initial access."],
     [id |-> "docB:0", distance |-> Frac(5, 10),
      metadata |-> [doc_id |-> "docB", threat_tags |-> <<"phishing">>],
      document |-> "Generic phishing awareness guidance for employees."],
     [id |-> "docA:1", distance |-> Frac(5, 10),
      metadata |-> [doc_id |-> "docA"],
      document |-> "ransomware intelligence"],
     [id |-> "docC:0", distance |-> Frac(-15, 10),
      metadata |-> NoneMetadata,
      document |-> "need ransomware " \o Repeat("Al Bo ", 63) \o "mail a@b.co"],
     [id |-> "docD:0", distance |-> Frac(5, 10),
      metadata |-> [threat_tags |-> <<"ransomware">>],
      document |-> "hello mapped"],
     [id |-> "docA:2", distance |-> Frac(15000, 10),
      metadata |-> [doc_id |-> "docA", threat_tags |-> <<"ransomware">>],
      document |-> "hello Al Bo"],
     [id |-> "docA:3", distance |-> Frac(15001, 10),
      metadata |-> [doc_id |-> "docA", threat_tags |-> <<"ransomware", "phishing">>],
      document |-> "hello a@b.co"]}

\* rag.py 281 and 337
HitPreviewChars == 400

\* a preview that skips the redaction
PreviewRaw(document) == Slice(document, 0, HitPreviewChars)

\* sanitize_text(document[:400]), worked out once for each document of the
\* index double and kept as a table
PreviewOfCandidate ==
    [document \in {c.document : c \in CandidatePool} |->
        SanitizeText(Slice(document, 0, HitPreviewChars))] @@ <<>>

\* rag.py 281 and 337: sanitize_text(document[:400])
Preview(document) ==
    IF document \in DOMAIN PreviewOfCandidate THEN PreviewOfCandidate[document]
    ELSE SanitizeText(Slice(document, 0, HitPreviewChars))

\* rag.py 330-338: a vector-mode hit
VectorHit(candidate) ==
    [id |-> candidate.id,
     distance |-> candidate.distance,
     score |-> Round6(NormalizeSemanticScore(candidate.distance)),
     metadata |-> MetadataOrEmpty(candidate.metadata),
     preview |-> Preview(candidate.document)]

RECURSIVE VectorHitsUntilReject(_, _, _, _)
\* a loop that stops at the first candidate the filters reject
VectorHitsUntilReject(results, options, i, hits) ==
    IF i > Len(results) THEN hits
    ELSE IF ~PassesFilters(MetadataOrEmpty(results[i].metadata), options) THEN hits
    ELSE LET more == Append(hits, VectorHit(results[i]))
         IN  IF Len(more) >= options.top_k THEN more
             ELSE VectorHitsUntilReject(results, options, i + 1, more)

RECURSIVE VectorHitsFrom(_, _, _, _)
\* rag.py 325-340: the loop from candidate i on, `hits` collected so far
VectorHitsFrom(results, options, i, hits) ==
    IF i > Len(results) THEN hits
    ELSE IF ~PassesFilters(MetadataOrEmpty(results[i].metadata), options)
       THEN VectorHitsFrom(results, options, i + 1, hits)
    ELSE LET more == Append(hits, VectorHit(results[i]))
         IN  IF Len(more) >= options.top_k THEN more
             ELSE VectorHitsFrom(results, options, i + 1, more)

\* a composite score that counts the semantic part at half its weight
FinalScoreHalfSemantic(semantic_score, keyword_score, threat_score, options) ==
    RatAdd(RatAdd(RatMul(RatMul(semantic_score, options.semantic_weight), Frac(1, 2)),
                  RatMul(keyword_score, options.keyword_weight)),
           RatMul(threat_score, options.threat_weight))

\* rag.py 266-270: final_score
FinalScore(semantic_score, keyword_score, threat_score, options) ==
    RatAdd(RatAdd(RatMul(semantic_score, options.semantic_weight),
                  RatMul(keyword_score, options.keyword_weight)),
           RatMul(threat_score, options.threat_weight))

\* rag.py 263-282: a rescored hit
HybridHit(query, query_profile, options, candidate) ==
    LET metadata == MetadataOrEmpty(candidate.metadata)
        semantic_score == NormalizeSemanticScore(candidate.distance)
        keyword_score == KeywordOverlap(query, candidate.document)
        threat_score == ThreatAlignment(query_profile, metadata)
    IN  [id |-> candidate.id,
         distance |-> candidate.distance,
         score |-> Round6(FinalScore(semantic_score, keyword_score, threat_score, options)),
         semantic_score |-> Round6(semantic_score),
         keyword_score |-> Round6(keyword_score),
         threat_score |-> Round6(threat_score),
         metadata |-> metadata,
         preview |-> Preview(candidate.document)]

RECURSIVE InsertAscending(_, _)
InsertAscending(sorted, item) ==
    IF sorted = <<>> THEN <<item>>
    ELSE IF Head(sorted).score > item.score THEN <<item>> \o sorted
    ELSE <<Head(sorted)>> \o InsertAscending(Tail(sorted), item)

RECURSIVE SortByScoreAscending(_)
\* a sort that forgets reverse=True
SortByScoreAscending(items) ==
    IF items = <<>> THEN <<>>
    ELSE InsertAscending(SortByScoreAscending(SubSeq(items, 1, Len(items) - 1)),
                         items[Len(items)])

RECURSIVE InsertDescending(_, _)
\* `item` goes behind every item whose score is at least its own
InsertDescending(sorted, item) ==
    IF sorted = <<>> THEN <<item>>
    ELSE IF Head(sorted).score < item.score THEN <<item>> \o sorted
    ELSE <<Head(sorted)>> \o InsertDescending(Tail(sorted), item)

RECURSIVE SortByScoreDescending(_)
\* rag.py 283: rescored.sort(key=score, reverse=True), a stable sort
SortByScoreDescending(items) ==
    IF items = <<>> THEN <<>>
    ELSE InsertDescending(SortByScoreDescending(SubSeq(items, 1, Len(items) - 1)),
                          items[Len(items)])

\* a slice that keeps one item too many
TruncateOneMore(items, top_k) == SubSeq(items, 1, Min(top_k + 1, Len(items)))

\* rag.py 284: rescored[: options.top_k]
Truncate(items, top_k) ==
    IF top_k >= 0 THEN SubSeq(items, 1, Min(top_k, Len(items)))
    ELSE SubSeq(items, 1, Max(Len(items) + top_k, 0))

\* rag.py 248-284: _hybrid_rescore
HybridRescore(query, query_profile, options, results) ==
    LET passing == SelectSeq(results,
                       LAMBDA c : PassesFilters(MetadataOrEmpty(c.metadata), options))
        rescored == [i \in 1..Len(passing) |->
                        HybridHit(query, query_profile, options, passing[i])]
    IN  Truncate(SortByScoreDescending(rescored), options.top_k)

(***************************************************************************)
(* The collaborators: the embedding provider and the vector index.         *)
(***************************************************************************)
\* a call to a collaborator: the method, and how many texts, ids or results
\* it passes or asks for
Call(op, n) == [op |-> op, n |-> n]

\* tests/test_cybersandbox_rag.py 10-12: DummyEmbedder.embed, one text
EmbedText(text) == <<Len(text), 1>>

\* the squared Euclidean distance of two embeddings
Distance(u, v) ==
    Frac((u[1] - v[1]) * (u[1] - v[1]) + (u[2] - v[2]) * (u[2] - v[2]), 1)

\* settings.py 23
CollectionName == "idcsa_docs"

\* an index that stores a second copy when the id is already there
UpsertAddingCopies(entries, ids, embeddings, documents, metadatas) ==
    LET fresh(id) == IF id \in DOMAIN entries THEN id \o "'" ELSE id
    IN  [id \in DOMAIN entries \cup {fresh(ids[k]) : k \in 1..Len(ids)} |->
            IF id \in DOMAIN entries THEN entries[id]
            ELSE LET i == CHOOSE k \in 1..Len(ids) : fresh(ids[k]) = id
                 IN  [embedding |-> embeddings[i],
                      document |-> documents[i],
                      metadata |-> metadatas[i]]]

\* an index that keeps what it already holds under an id, as collection.add
UpsertKeepingStored(entries, ids, embeddings, documents, metadatas) ==
    [id \in DOMAIN entries \cup Range(ids) |->
        IF id \in DOMAIN entries THEN entries[id]
        ELSE LET i == CHOOSE k \in 1..Len(ids) : ids[k] = id
             IN  [embedding |-> embeddings[i],
                  document |-> documents[i],
                  metadata |-> metadatas[i]]]

\* an index that drops the other chunks of a document when it writes some
UpsertReplacingDocument(entries, ids, embeddings, documents, metadatas) ==
    LET kept == {id \in DOMAIN entries :
                   \A k \in 1..Len(metadatas) :
                       entries[id].metadata.doc_id # metadatas[k].doc_id}
    IN  [id \in kept \cup Range(ids) |->
            IF id \in Range(ids)
               THEN LET i == CHOOSE k \in 1..Len(ids) : ids[k] = id
                    IN  [embedding |-> embeddings[i],
                         document |-> documents[i],
                         metadata |-> metadatas[i]]
            ELSE entries[id]]

\* collection.upsert(ids, embeddings, documents, metadatas)
Upsert(entries, ids, embeddings, documents, metadatas) ==
    [id \in DOMAIN entries \cup Range(ids) |->
        IF id \in Range(ids)
           THEN LET i == CHOOSE k \in 1..Len(ids) : ids[k] = id
                IN  [embedding |-> embeddings[i],
                     document |-> documents[i],
                     metadata |-> metadatas[i]]
        ELSE entries[id]]

RECURSIVE NearestOrders(_, _, _, _)
\* the ways to list the n nearest of the stored ids by ascending distance
NearestOrders(entries, ids, embedding, n) ==
    IF n = 0 \/ ids = {} THEN {<<>>}
    ELSE LET nearest == {i \in ids : \A j \in ids :
                            RatLeq(Distance(entries[i].embedding, embedding),
                                   Distance(entries[j].embedding, embedding))}
         IN  UNION {{<<i>> \o rest :
                        rest \in NearestOrders(entries, ids \ {i}, embedding, n - 1)} :
                    i \in nearest}

\* collection.query(query_embeddings=[embedding], n_results=n, include=...)
StoreQuery(entries, embedding, n) ==
    {[k \in 1..Len(order) |->
        [id |-> order[k],
         distance |-> Distance(entries[order[k]].embedding, embedding),
         metadata |-> entries[order[k]].metadata,
         document |-> entries[order[k]].document]] :
     order \in NearestOrders(entries, DOMAIN entries, embedding, n)}

(***************************************************************************)
(* ingest_upload, one step per call to a collaborator.                     *)
(***************************************************************************)
\* sha256 of the text: a digest that tells any two texts apart
HashText(text) == <<"sha256", text>>

\* rag.py 137
MetadataPreviewChars == 280

\* metadata whose chunk_index counts from one
BuildMetadataFromOne(chunk, doc_id, index) ==
    [doc_id |-> doc_id,
     source |-> doc_id,
     chunk_index |-> index + 1,
     hash |-> HashText(chunk),
     threat_tags |-> ExtractThreatProfile(chunk).tags,
     mitre_tactics |-> ExtractThreatProfile(chunk).tactics,
     intel_indicators |-> ExtractThreatProfile(chunk).indicators,
     sanitized_preview |-> SanitizeText(Slice(chunk, 0, MetadataPreviewChars))]

\* rag.py 127-138: _build_metadata
BuildMetadata(chunk, doc_id, index) ==
    LET profile == ExtractThreatProfile(chunk)
    IN  [doc_id |-> doc_id,
         source |-> doc_id,
         chunk_index |-> index,
         hash |-> HashText(chunk),
         threat_tags |-> profile.tags,
         mitre_tactics |-> profile.tactics,
         intel_indicators |-> profile.indicators,
         sanitized_preview |-> SanitizeText(Slice(chunk, 0, MetadataPreviewChars))]

\* chunk ids that leave the document out
ChunkIdWithoutDocument(filename, index) == "chunk:" \o ToString(index)

\* rag.py 174: f"{upload.filename}:{index}"
ChunkId(filename, index) == filename \o ":" \o ToString(index)

\* rag.py 169-186: what ingest_upload hands to collection.upsert
UpsertArguments(upload, chunk_mode) ==
    LET chunks == ChunkText(upload.text, DefaultChunkSize, DefaultOverlap, chunk_mode)
    IN  [ids |-> [i \in 1..Len(chunks) |-> ChunkId(upload.filename, i - 1)],
         embeddings |-> [i \in 1..Len(chunks) |-> EmbedText(chunks[i])],
         documents |-> chunks,
         metadatas |-> [i \in 1..Len(chunks) |->
                           BuildMetadata(chunks[i], upload.filename, i - 1)]]

\* rag.py 188-197: the summary ingest_upload returns
Summary(upload, chunk_mode) ==
    LET profile == ExtractThreatProfile(upload.text)
    IN  [chunks |-> Len(ChunkText(upload.text, DefaultChunkSize, DefaultOverlap,
                                  chunk_mode)),
         doc_id |-> upload.filename,
         hash |-> HashText(upload.text),
         threat_tags |-> profile.tags,
         mitre_tactics |-> profile.tactics,
         intel_indicators |-> profile.indicators,
         chunk_mode |-> chunk_mode]

\* the documents a caller uploads
Uploads ==
    {[filename |-> "notes.txt", text |-> "phishing loader\n\nc2"],
     [filename |-> "notes.txt", text |-> "password"],
     [filename |-> "empty.txt", text |-> ""]}

ChunkModes == {"fixed", "paragraph"}

\* the documents two threads upload: one document id with two contents of
\* different length, and another document id
ConcurrentUploads ==
    {[filename |-> "notes.txt", text |-> "phishing loader\n\nc2"],
     [filename |-> "notes.txt", text |-> "password"],
     [filename |-> "intel.txt", text |-> "c2 beacon"]}

\* no call of ingest_upload, nothing to hand to the upsert
NoUpsert == [ids |-> <<>>, embeddings |-> <<>>, documents |-> <<>>, metadatas |-> <<>>]

NoUpload == [filename |-> "", text |-> ""]

NoOutcome == [kind |-> "none"]

Raised(type, message) == [kind |-> "raise", type |-> type, message |-> message]

IngestIdle ==
    /\ in_pc = "idle"
    /\ in_calls = <<>>
    /\ in_upload = NoUpload
    /\ in_mode = ""
    /\ in_chunks = <<>>
    /\ in_ids = <<>>
    /\ in_metas = <<>>
    /\ in_embeddings = <<>>
    /\ in_upserts = <<>>
    /\ in_out = NoOutcome

\* rag.py 164-177: read the upload, chunk it, build ids and metadata
IngestBegin(upload, chunk_mode) ==
    /\ in_pc = "idle"
    /\ in_pc' = "embed"
    /\ in_calls' = <<>>
    /\ in_upload' = upload
    /\ in_mode' = chunk_mode
    /\ in_chunks' = ChunkText(upload.text, DefaultChunkSize, DefaultOverlap, chunk_mode)
    /\ in_ids' = [i \in 1..Len(in_chunks') |-> ChunkId(upload.filename, i - 1)]
    /\ in_metas' = [i \in 1..Len(in_chunks') |->
                       BuildMetadata(in_chunks'[i], upload.filename, i - 1)]
    /\ in_embeddings' = <<>>
    /\ in_upserts' = <<>>
    /\ in_out' = NoOutcome

\* a caller other than ingest_files calls ingest_upload
IngestCall(upload, chunk_mode) ==
    /\ IngestBegin(upload, chunk_mode)
    /\ UNCHANGED <<toolVars, chunkVars, indexVars, queryVars, batchVars, writerVars>>

\* rag.py 179: embedder.embed(embeddings_input) answers
IngestEmbed ==
    /\ in_pc = "embed"
    /\ in_pc' = "get_collection"
    /\ in_calls' = Append(in_calls, Call("embed", Len(in_chunks)))
    /\ in_embeddings' = [i \in 1..Len(in_chunks) |-> EmbedText(in_chunks[i])]
    /\ UNCHANGED <<in_upload, in_mode, in_chunks, in_ids, in_metas, in_upserts, in_out>>
    /\ UNCHANGED <<toolVars, chunkVars, indexVars, queryVars, batchVars, writerVars>>

\* an ingest that goes on with zero vectors when the provider fails
IngestEmbedFailsSwallowed ==
    /\ in_pc = "embed"
    /\ in_pc' = "get_collection"
    /\ in_calls' = Append(in_calls, Call("embed", Len(in_chunks)))
    /\ in_embeddings' = [i \in 1..Len(in_chunks) |-> <<0, 0>>]
    /\ UNCHANGED <<in_upload, in_mode, in_chunks, in_ids, in_metas, in_upserts, in_out>>
    /\ UNCHANGED <<toolVars, chunkVars, indexVars, queryVars, batchVars, writerVars>>

\* rag.py 179 and deps.py 58-64: embed raises, ingest_upload does not catch
IngestEmbedFails ==
    /\ in_pc = "embed"
    /\ in_pc' = "raised"
    /\ in_calls' = Append(in_calls, Call("embed", Len(in_chunks)))
    /\ in_out' = Raised("RuntimeError", "sentence-transformers is not installed")
    /\ UNCHANGED <<in_upload, in_mode, in_chunks, in_ids, in_metas, in_embeddings, in_upserts>>
    /\ UNCHANGED <<toolVars, chunkVars, indexVars, queryVars, batchVars, writerVars>>

\* rag.py 180 and 149-152: get_or_create_collection
IngestGetCollection ==
    /\ in_pc = "get_collection"
    /\ in_pc' = "upsert"
    /\ in_calls' = Append(in_calls, Call("get_or_create_collection", 0))
    /\ collections' = collections \cup {CollectionName}
    /\ UNCHANGED <<store, in_upload, in_mode, in_chunks, in_ids, in_metas,
                   in_embeddings, in_upserts, in_out>>
    /\ UNCHANGED <<toolVars, chunkVars, queryVars, batchVars, writerVars>>

\* rag.py 180 and 141-146: the index backend cannot be loaded
IngestGetCollectionFails ==
    /\ in_pc = "get_collection"
    /\ in_pc' = "raised"
    /\ in_calls' = Append(in_calls, Call("get_or_create_collection", 0))
    /\ in_out' = Raised("ModuleNotFoundError", "No module named 'chromadb'")
    /\ UNCHANGED <<in_upload, in_mode, in_chunks, in_ids, in_metas, in_embeddings, in_upserts>>
    /\ UNCHANGED <<toolVars, chunkVars, indexVars, queryVars, batchVars, writerVars>>

\* rag.py 181-197: the upsert, then the summary
IngestWrite ==
    /\ in_pc = "upsert"
    /\ in_pc' = "returned"
    /\ in_calls' = Append(in_calls, Call("upsert", Len(in_ids)))
    /\ store' = Upsert(store, in_ids, in_embeddings, in_chunks, in_metas)
    /\ in_upserts' = Append(in_upserts,
                            [ids |-> in_ids, embeddings |-> in_embeddings,
                             documents |-> in_chunks, metadatas |-> in_metas])
    /\ in_out' = [kind |-> "return", result |-> Summary(in_upload, in_mode)]
    /\ UNCHANGED <<collections, in_upload, in_mode, in_chunks, in_ids, in_metas, in_embeddings>>
    /\ UNCHANGED <<toolVars, chunkVars, queryVars, batchVars>>

\* ingest_upload writes while no second ingest_upload is being followed
IngestUpsert ==
    /\ IngestWrite
    /\ UNCHANGED writerVars

\* the frame of ingest_upload is gone
IngestEnd ==
    /\ in_pc \in {"returned", "raised"}
    /\ in_pc' = "idle"
    /\ in_calls' = <<>>
    /\ in_upload' = NoUpload
    /\ in_mode' = ""
    /\ in_chunks' = <<>>
    /\ in_ids' = <<>>
    /\ in_metas' = <<>>
    /\ in_embeddings' = <<>>
    /\ in_upserts' = <<>>
    /\ in_out' = NoOutcome

\* the caller takes the summary or the exception
IngestFinish ==
    /\ IngestEnd
    /\ UNCHANGED <<toolVars, chunkVars, indexVars, queryVars, batchVars, writerVars>>

(***************************************************************************)
(* Two executions of ingest_upload at once.  The engine takes no lock; the  *)
(* second execution's locals are functions of its arguments.                *)
(***************************************************************************)
\* two threads call ingest_upload
ConcurrentCall(first, first_mode, second, second_mode) ==
    /\ w_pc = "idle"
    /\ IngestBegin(first, first_mode)
    /\ w_pc' = "embed"
    /\ w_upload' = second
    /\ w_mode' = second_mode
    /\ w_args' = UpsertArguments(second, second_mode)
    /\ w_out' = NoOutcome
    /\ w_base' = store
    /\ w_last' = "none"
    /\ UNCHANGED <<toolVars, chunkVars, indexVars, queryVars, batchVars>>

\* rag.py 181-186 in the first thread
FirstUpsert ==
    /\ IngestWrite
    /\ w_last' = "first"
    /\ UNCHANGED <<w_pc, w_upload, w_mode, w_args, w_out, w_base>>

\* rag.py 179 in the second thread
SecondEmbed ==
    /\ w_pc = "embed"
    /\ w_pc' = "get_collection"
    /\ UNCHANGED <<w_upload, w_mode, w_args, w_out, w_base, w_last>>
    /\ UNCHANGED <<toolVars, chunkVars, indexVars, ingestVars, queryVars, batchVars>>

\* rag.py 179 and deps.py 58-64 in the second thread
SecondEmbedFails ==
    /\ w_pc = "embed"
    /\ w_pc' = "raised"
    /\ w_out' = Raised("RuntimeError", "sentence-transformers is not installed")
    /\ UNCHANGED <<w_upload, w_mode, w_args, w_base, w_last>>
    /\ UNCHANGED <<toolVars, chunkVars, indexVars, ingestVars, queryVars, batchVars>>

\* rag.py 180 in the second thread
SecondGetCollection ==
    /\ w_pc = "get_collection"
    /\ w_pc' = "upsert"
    /\ collections' = collections \cup {CollectionName}
    /\ UNCHANGED <<store, w_upload, w_mode, w_args, w_out, w_base, w_last>>
    /\ UNCHANGED <<toolVars, chunkVars, ingestVars, queryVars, batchVars>>

\* rag.py 181-197 in the second thread
SecondUpsert ==
    /\ w_pc = "upsert"
    /\ w_pc' = "returned"
    /\ store' = Upsert(store, w_args.ids, w_args.embeddings, w_args.documents,
                       w_args.metadatas)
    /\ w_out' = [kind |-> "return", result |-> Summary(w_upload, w_mode)]
    /\ w_last' = "second"
    /\ UNCHANGED <<collections, w_upload, w_mode, w_args, w_base>>
    /\ UNCHANGED <<toolVars, chunkVars, ingestVars, queryVars, batchVars>>

\* both threads are joined
ConcurrentFinish ==
    /\ w_pc \in {"returned", "raised"}
    /\ IngestEnd
    /\ w_pc' = "idle"
    /\ w_upload' = NoUpload
    /\ w_mode' = ""
    /\ w_args' = NoUpsert
    /\ w_out' = NoOutcome
    /\ w_base' = <<>>
    /\ w_last' = "none"
    /\ UNCHANGED <<toolVars, chunkVars, indexVars, queryVars, batchVars>>

(***************************************************************************)
(* ingest_files: the loop over the paths, one ingest_upload per path.       *)
(***************************************************************************)
\* rag.py 203-205: results = []
BatchCall(paths) ==
    /\ b_pc = "idle"
    /\ b_pc' = "loop"
    /\ b_queue' = paths
    /\ b_results' = <<>>
    /\ b_out' = NoOutcome
    /\ UNCHANGED <<toolVars, chunkVars, indexVars, ingestVars, queryVars, writerVars>>

\* rag.py 206-210: the next path is opened and handed to ingest_upload,
\* chunk_mode left at its default
BatchIngestNext ==
    /\ b_pc = "loop"
    /\ b_queue # <<>>
    /\ b_pc' = "ingesting"
    /\ IngestBegin(Head(b_queue), "fixed")
    /\ UNCHANGED <<b_queue, b_results, b_out>>
    /\ UNCHANGED <<toolVars, chunkVars, indexVars, queryVars, writerVars>>

\* rag.py 210-212: ingest_upload returned, its summary is appended
BatchCollect ==
    /\ b_pc = "ingesting"
    /\ in_pc = "returned"
    /\ b_pc' = "loop"
    /\ b_queue' = Tail(b_queue)
    /\ b_results' = Append(b_results, in_out.result)
    /\ IngestEnd
    /\ UNCHANGED b_out
    /\ UNCHANGED <<toolVars, chunkVars, indexVars, queryVars, writerVars>>

\* rag.py 209-212: ingest_upload raised; try/finally closes the file and has
\* no except clause, so the exception leaves the loop and ingest_files
BatchPropagate ==
    /\ b_pc = "ingesting"
    /\ in_pc = "raised"
    /\ b_pc' = "raised"
    /\ b_out' = in_out
    /\ IngestEnd
    /\ UNCHANGED <<b_queue, b_results>>
    /\ UNCHANGED <<toolVars, chunkVars, indexVars, queryVars, writerVars>>

\* rag.py 213: return results
BatchReturn ==
    /\ b_pc = "loop"
    /\ b_queue = <<>>
    /\ b_pc' = "returned"
    /\ b_out' = [kind |-> "return", result |-> b_results]
    /\ UNCHANGED <<b_queue, b_results>>
    /\ UNCHANGED <<toolVars, chunkVars, indexVars, ingestVars, queryVars, writerVars>>

\* the caller of ingest_files takes the list or the exception
BatchFinish ==
    /\ b_pc \in {"returned", "raised"}
    /\ b_pc' = "idle"
    /\ b_queue' = <<>>
    /\ b_results' = <<>>
    /\ b_out' = NoOutcome
    /\ UNCHANGED <<toolVars, chunkVars, indexVars, ingestVars, queryVars, writerVars>>

(***************************************************************************)
(* query_rag, one step per call to a collaborator.                         *)
(***************************************************************************)
NoArgs ==
    [query |-> "", top_k |-> 0, retrieval_mode |-> "", doc_ids |-> <<>>,
     required_threat_tags |-> <<>>]

NoProfile == [tags |-> <<>>, tactics |-> <<>>, indicators |-> <<>>]

QueryIdle ==
    /\ q_pc = "idle"
    /\ q_calls = <<>>
    /\ q_args = NoArgs
    /\ q_profile = NoProfile
    /\ q_embedding = <<>>
    /\ q_results = <<>>
    /\ q_out = NoOutcome

\* rag.py 287-300: the call
QueryCall(args) ==
    /\ q_pc = "idle"
    /\ q_pc' = "get_collection"
    /\ q_calls' = <<>>
    /\ q_args' = args
    /\ UNCHANGED <<q_profile, q_embedding, q_results, q_out>>
    /\ UNCHANGED <<toolVars, chunkVars, indexVars, ingestVars, batchVars, writerVars>>

\* rag.py 301-309: get_or_create_collection, then the options and the
\* profile of the query
QueryGetCollection ==
    /\ q_pc = "get_collection"
    /\ q_pc' = "embed"
    /\ q_calls' = Append(q_calls, Call("get_or_create_collection", 0))
    /\ collections' = collections \cup {CollectionName}
    /\ q_profile' = ExtractThreatProfile(q_args.query)
    /\ UNCHANGED <<store, q_args, q_embedding, q_results, q_out>>
    /\ UNCHANGED <<toolVars, chunkVars, ingestVars, batchVars, writerVars>>

\* rag.py 301 and 141-146: the index backend cannot be loaded
QueryGetCollectionFails ==
    /\ q_pc = "get_collection"
    /\ q_pc' = "raised"
    /\ q_calls' = Append(q_calls, Call("get_or_create_collection", 0))
    /\ q_out' = Raised("ModuleNotFoundError", "No module named 'chromadb'")
    /\ UNCHANGED <<q_args, q_profile, q_embedding, q_results>>
    /\ UNCHANGED <<toolVars, chunkVars, indexVars, ingestVars, batchVars, writerVars>>

\* rag.py 311: embedder.embed([query])[0]
QueryEmbed ==
    /\ q_pc = "embed"
    /\ q_pc' = "index_query"
    /\ q_calls' = Append(q_calls, Call("embed", 1))
    /\ q_embedding' = EmbedText(q_args.query)
    /\ UNCHANGED <<q_args, q_profile, q_results, q_out>>
    /\ UNCHANGED <<toolVars, chunkVars, indexVars, ingestVars, batchVars, writerVars>>

\* a query_rag that calls embed again when the provider fails
QueryEmbedFailsRetried ==
    /\ q_pc = "embed"
    /\ Len(q_calls) < 4
    /\ q_pc' = "embed"
    /\ q_calls' = Append(q_calls, Call("embed", 1))
    /\ UNCHANGED <<q_args, q_profile, q_embedding, q_results, q_out>>
    /\ UNCHANGED <<toolVars, chunkVars, indexVars, ingestVars, batchVars, writerVars>>

\* rag.py 311 and deps.py 58-64: embed raises, query_rag does not catch
QueryEmbedFails ==
    /\ q_pc = "embed"
    /\ q_pc' = "raised"
    /\ q_calls' = Append(q_calls, Call("embed", 1))
    /\ q_out' = Raised("RuntimeError", "sentence-transformers is not installed")
    /\ UNCHANGED <<q_args, q_profile, q_embedding, q_results>>
    /\ UNCHANGED <<toolVars, chunkVars, indexVars, ingestVars, batchVars, writerVars>>

\* an over-fetch factor of 2
FetchKDouble(top_k) == Max(top_k * 2, top_k)

\* rag.py 312: fetch_k
FetchK(top_k) == Max(top_k * 3, top_k)

\* rag.py 312-322: the index answers from what it stores
QueryIndexQuery ==
    /\ q_pc = "index_query"
    /\ q_pc' = "dispatch"
    /\ q_calls' = Append(q_calls, Call("query", FetchK(q_args.top_k)))
    /\ q_results' \in StoreQuery(store, q_embedding, FetchK(q_args.top_k))
    /\ UNCHANGED <<q_args, q_profile, q_embedding, q_out>>
    /\ UNCHANGED <<toolVars, chunkVars, indexVars, ingestVars, batchVars, writerVars>>

\* rag.py 324-363: the mode dispatch and the result
QueryDispatch ==
    /\ q_pc = "dispatch"
    /\ LET options == QueryOptions(q_args.top_k, q_args.retrieval_mode,
                                   q_args.doc_ids, q_args.required_threat_tags)
           threat_profile == [tags |-> q_profile.tags,
                              mitre_tactics |-> q_profile.tactics,
                              intel_indicators |-> q_profile.indicators]
           result(hits) == [kind |-> "return",
                            result |-> [query |-> q_args.query,
                                        retrieval_mode |-> q_args.retrieval_mode,
                                        threat_profile |-> threat_profile,
                                        results |-> hits]]
       IN  IF q_args.retrieval_mode = "vector"
              THEN /\ q_pc' = "returned"
                   /\ q_out' = result(VectorHitsFrom(q_results, options, 1, <<>>))
           ELSE IF q_args.retrieval_mode \in {"hybrid", "intel"}
              THEN /\ q_pc' = "returned"
                   /\ q_out' = result(HybridRescore(q_args.query, q_profile, options, q_results))
           ELSE /\ q_pc' = "raised"
                /\ q_out' = Raised("ValueError",
                                   "Unsupported retrieval mode: " \o q_args.retrieval_mode)
    /\ UNCHANGED <<q_args, q_profile, q_embedding, q_results, q_calls>>
    /\ UNCHANGED <<toolVars, chunkVars, indexVars, ingestVars, batchVars, writerVars>>

\* the caller takes the result or the exception
QueryFinish ==
    /\ q_pc \in {"returned", "raised"}
    /\ q_pc' = "idle"
    /\ q_calls' = <<>>
    /\ q_args' = NoArgs
    /\ q_profile' = NoProfile
    /\ q_embedding' = <<>>
    /\ q_results' = <<>>
    /\ q_out' = NoOutcome
    /\ UNCHANGED <<toolVars, chunkVars, indexVars, ingestVars, batchVars, writerVars>>

(***************************************************************************)
(* The HTTP routes of main.py: the response to a request, given how the     *)
(* call the handler awaits ended.                                           *)
(***************************************************************************)
\* raise HTTPException(status_code=..., detail=str(exc))
HttpError(status, outcome) == [status |-> status, detail |-> outcome.message]

\* an exception no handler catches: the server answers 500
Unhandled(outcome) == [status |-> 500, detail |-> "Internal Server Error"]

Ok(outcome) == [status |-> 200, body |-> outcome.result]

\* main.py 99-113: /embed awaits client.embed and maps RuntimeError to 503
EmbedRoute(outcome) ==
    IF outcome.kind = "return" THEN Ok(outcome)
    ELSE IF outcome.type = "RuntimeError" THEN HttpError(503, outcome)
    ELSE Unhandled(outcome)

\* main.py 116-128: /rag/ingest awaits ingest_upload outside any try
RagIngestRoute(outcome) ==
    IF outcome.kind = "return" THEN Ok(outcome)
    ELSE Unhandled(outcome)

\* main.py 131-157: /rag/query awaits query_rag and maps ValueError to 400
RagQueryRoute(outcome) ==
    IF outcome.kind = "return" THEN Ok(outcome)
    ELSE IF outcome.type = "ValueError" THEN HttpError(400, outcome)
    ELSE Unhandled(outcome)

(***************************************************************************)
(* tools/rag_store.py: RAGStore, an in-memory list of documents searched   *)
(* by counting the query tokens a document holds.                          *)
(***************************************************************************)
RECURSIVE WordLength(_)
\* how many characters at the head of the text are no whitespace
WordLength(text) ==
    IF text = "" \/ Head(text) \in Whitespace THEN 0
    ELSE 1 + WordLength(Tail(text))

RECURSIVE SplitWhitespace(_)
\* str.split(): the maximal runs of characters that are no whitespace
SplitWhitespace(text) ==
    LET rest == StripLeft(text)
    IN  IF rest = "" THEN <<>>
        ELSE <<SubSeq(rest, 1, WordLength(rest))>>
                \o SplitWhitespace(SubSeq(rest, WordLength(rest) + 1, Len(rest)))

RECURSIVE Join(_, _)
\* sep.join(parts)
Join(parts, sep) ==
    IF parts = <<>> THEN ""
    ELSE IF Len(parts) = 1 THEN parts[1]
    ELSE parts[1] \o sep \o Join(Tail(parts), sep)

\* rag_store.py 37: Document(title.strip(), content.strip(), lower-cased tags)
Document(title, content, tags) ==
    [title |-> Strip(title),
     content |-> Strip(content),
     tags |-> [i \in 1..Len(tags) |-> LowerText(tags[i])]]

\* rag_store.py 47
NormalizedQuery(query) ==
    LET tokens == SplitWhitespace(query)
        kept == SelectSeq(tokens, LAMBDA token : Strip(token) # "")
    IN  [i \in 1..Len(kept) |-> LowerText(kept[i])]

\* rag_store.py 52
Haystack(document) ==
    LowerText(document.title) \o " " \o LowerText(document.content) \o " "
        \o Join(document.tags, " ")

\* rag_store.py 51-53: score, one for every token of the list found in the
\* haystack
Score(document, normalized_query) ==
    Cardinality({i \in 1..Len(normalized_query) :
                   Contains(Haystack(document), normalized_query[i])})

\* the generator that hands every stored document to the sort
MatchingOrNot(documents, normalized_query) == documents

\* rag_store.py 56: (doc for doc in self._documents if score(doc) > 0)
Matching(documents, normalized_query) ==
    SelectSeq(documents, LAMBDA doc : Score(doc, normalized_query) > 0)

\* rag_store.py 55-59: sorted(..., key=score, reverse=True), a stable sort
Ranked(documents, normalized_query) ==
    LET matching == Matching(documents, normalized_query)
        keyed == [i \in 1..Len(matching) |->
                    [document |-> matching[i],
                     score |-> Score(matching[i], normalized_query)]]
        sorted == SortByScoreDescending(keyed)
    IN  [i \in 1..Len(sorted) |-> sorted[i].document]

\* rag_store.py 42-59: what search answers on the given documents
SearchOutcome(documents, query, limit) ==
    IF limit <= 0 THEN Raised("ValueError", "limit must be positive")
    ELSE IF NormalizedQuery(query) = <<>> THEN [kind |-> "return", result |-> <<>>]
    ELSE [kind |-> "return",
          result |-> Truncate(Ranked(documents, NormalizedQuery(query)), limit)]

\* rag_store.py 32-40: add_document
AddDocument(title, content, tags) ==
    /\ Len(rs_documents) < MaxDocuments
    /\ rs_call' = [op |-> "add_document", title |-> title, content |-> content,
                   tags |-> tags]
    /\ IF Strip(title) = ""
          THEN /\ rs_out' = Raised("ValueError", "Document title cannot be empty")
               /\ UNCHANGED rs_documents
       ELSE IF Strip(content) = ""
          THEN /\ rs_out' = Raised("ValueError", "Document content cannot be empty")
               /\ UNCHANGED rs_documents
       ELSE /\ rs_documents' = Append(rs_documents, Document(title, content, tags))
            /\ rs_out' = [kind |-> "return", result |-> Document(title, content, tags)]
    /\ UNCHANGED <<chunkVars, indexVars, ingestVars, queryVars, batchVars, writerVars>>

\* rag_store.py 42-59: search
SearchCall(query, limit) ==
    /\ rs_call' = [op |-> "search", query |-> query, limit |-> limit]
    /\ rs_out' = SearchOutcome(rs_documents, query, limit)
    /\ UNCHANGED rs_documents
    /\ UNCHANGED <<chunkVars, indexVars, ingestVars, queryVars, batchVars, writerVars>>

(***************************************************************************)
(* The specifications.                                                     *)
(***************************************************************************)
ChunkIdle ==
    /\ ch_text = ""
    /\ ch_size = 1
    /\ ch_overlap = 0
    /\ ch_mode = "fixed"
    /\ ch_start = 0
    /\ ch_end = 0
    /\ ch_chunks = <<>>
    /\ ch_pc = "done"

\* ingest_files is not running
BatchIdle ==
    /\ b_pc = "idle"
    /\ b_queue = <<>>
    /\ b_results = <<>>
    /\ b_out = NoOutcome

\* rag_store.py 29-30: a new store holds no document
ToolIdle ==
    /\ rs_documents = <<>>
    /\ rs_call = [op |-> "init"]
    /\ rs_out = NoOutcome

\* no second ingest_upload is running
WriterIdle ==
    /\ w_pc = "idle"
    /\ w_upload = NoUpload
    /\ w_mode = ""
    /\ w_args = NoUpsert
    /\ w_out = NoOutcome
    /\ w_base = <<>>
    /\ w_last = "none"

\* a fresh storage directory: no collection, nothing stored
IndexFresh ==
    /\ collections = {}
    /\ store = <<>>

\* SpecChunk: the fixed-mode loop of _chunk_text on every small input
InitChunk == ChunkCalled /\ IndexFresh /\ IngestIdle /\ QueryIdle /\ BatchIdle /\ WriterIdle
    /\ ToolIdle

SpecChunk == InitChunk /\ [][NextChunk]_vars

RECURSIVE AscendingLists(_, _)
\* the lists of at most n distinct candidates in order of ascending distance
AscendingLists(pool, n) ==
    IF n = 0 THEN {<<>>}
    ELSE LET shorter == AscendingLists(pool, n - 1)
             fits(list, c) == \A k \in 1..Len(list) :
                                 /\ list[k].id # c.id
                                 /\ RatLeq(list[k].distance, c.distance)
         IN  shorter \cup
                {Append(p[1], p[2]) : p \in {x \in shorter \X pool : fits(x[1], x[2])}}

CannedResponses == AscendingLists(CandidatePool, MaxCandidates)

Modes == {"vector", "hybrid", "intel", "bogus"}

\* the calls made against the index double
CannedQueryArgs ==
    [query : {"Need ransomware intelligence mapped to CVE-2024-3400", "hello"},
     top_k : 1..MaxTopK,
     retrieval_mode : Modes,
     doc_ids : {<<>>, <<"docA">>},
     required_threat_tags : {<<>>, <<"ransomware">>}]

\* tests/test_cybersandbox_rag.py 23-36: a collection that answers with its
\* own list whatever n_results asks for
QueryIndexQueryCanned ==
    /\ q_pc = "index_query"
    /\ q_pc' = "dispatch"
    /\ q_calls' = Append(q_calls, Call("query", FetchK(q_args.top_k)))
    /\ q_results' \in CannedResponses
    /\ UNCHANGED <<q_args, q_profile, q_embedding, q_out>>
    /\ UNCHANGED <<toolVars, chunkVars, indexVars, ingestVars, batchVars, writerVars>>

QueryCallCanned == \E args \in CannedQueryArgs : QueryCall(args)

\* SpecQuery: query_rag against the index double
InitQuery == ChunkIdle /\ IndexFresh /\ IngestIdle /\ QueryIdle /\ BatchIdle /\ WriterIdle
    /\ ToolIdle

NextQuery ==
    \/ QueryCallCanned
    \/ QueryGetCollection
    \/ QueryGetCollectionFails
    \/ QueryEmbed
    \/ QueryEmbedFails
    \/ QueryIndexQueryCanned
    \/ QueryDispatch
    \/ QueryFinish

SpecQuery == InitQuery /\ [][NextQuery]_vars

\* calls against the index double with a limit of zero or less
NonPositiveQueryArgs ==
    [query : {"Need ransomware intelligence mapped to CVE-2024-3400", "hello"},
     top_k : (0 - MaxTopK)..0,
     retrieval_mode : Modes,
     doc_ids : {<<>>, <<"docA">>},
     required_threat_tags : {<<>>}]

QueryCallNonPositive == \E args \in NonPositiveQueryArgs : QueryCall(args)

NextLimit ==
    \/ QueryCallNonPositive
    \/ QueryGetCollection
    \/ QueryGetCollectionFails
    \/ QueryEmbed
    \/ QueryEmbedFails
    \/ QueryIndexQueryCanned
    \/ QueryDispatch
    \/ QueryFinish

\* SpecLimit: query_rag with top_k <= 0 against the index double
SpecLimit == InitQuery /\ [][NextLimit]_vars

\* the calls made against the stored index
SystemQueryArgs ==
    [query : {"password"},
     top_k : 1..MaxTopK,
     retrieval_mode : Modes,
     doc_ids : {<<>>},
     required_threat_tags : {<<>>}]

QueryCallSystem == \E args \in SystemQueryArgs : QueryCall(args)

IngestCallAny == \E upload \in Uploads, chunk_mode \in ChunkModes : IngestCall(upload, chunk_mode)

\* Spec: ingest_upload and query_rag, interleaved, on one index
Init == ChunkIdle /\ IndexFresh /\ IngestIdle /\ QueryIdle /\ BatchIdle /\ WriterIdle
    /\ ToolIdle

Next ==
    \/ IngestCallAny
    \/ IngestEmbed
    \/ IngestEmbedFails
    \/ IngestGetCollection
    \/ IngestGetCollectionFails
    \/ IngestUpsert
    \/ IngestFinish
    \/ QueryCallSystem
    \/ QueryGetCollection
    \/ QueryGetCollectionFails
    \/ QueryEmbed
    \/ QueryEmbedFails
    \/ QueryIndexQuery
    \/ QueryDispatch
    \/ QueryFinish

Spec == Init /\ [][Next]_vars

\* a document of three paragraphs and a document of one, every chunk at
\* another distance from the query "password"
WindowUploads ==
    {[filename |-> "wide.txt", text |-> "password\n\npasswords\n\npasswd"],
     [filename |-> "far.txt", text |-> "c2"]}

\* calls with and without an allow-list that names the far document
WindowQueryArgs ==
    [query : {"password"},
     top_k : 1..MaxTopK,
     retrieval_mode : {"vector", "hybrid"},
     doc_ids : {<<>>, <<"far.txt">>},
     required_threat_tags : {<<>>}]

IngestCallWindow == \E upload \in WindowUploads : IngestCall(upload, "paragraph")

QueryCallWindow == \E args \in WindowQueryArgs : QueryCall(args)

NextWindow ==
    \/ IngestCallWindow
    \/ IngestEmbed
    \/ IngestEmbedFails
    \/ IngestGetCollection
    \/ IngestGetCollectionFails
    \/ IngestUpsert
    \/ IngestFinish
    \/ QueryCallWindow
    \/ QueryGetCollection
    \/ QueryGetCollectionFails
    \/ QueryEmbed
    \/ QueryEmbedFails
    \/ QueryIndexQuery
    \/ QueryDispatch
    \/ QueryFinish

\* SpecWindow: ingest_upload and query_rag on an index that comes to hold
\* more chunks than a query fetches
SpecWindow == Init /\ [][NextWindow]_vars

\* how many dozens of repetitions the generated documents go up to
MaxDozens == 4

\* documents made of one unit repeated: a name, an e-mail address, a phone
\* number, a plain word
GeneratedUploads ==
    {[filename |-> "gen.txt", text |-> Repeat(unit, 12 * dozens)] :
        unit \in {"Al Bo ", "a@b.co ", "555-123-4567 ", "word "},
        dozens \in 0..MaxDozens}

\* the first ingestion into an index that holds nothing
IngestCallGenerated ==
    /\ DOMAIN store = {}
    /\ \E upload \in GeneratedUploads, chunk_mode \in ChunkModes :
          IngestCall(upload, chunk_mode)

NextIngest ==
    \/ IngestCallGenerated
    \/ IngestEmbed
    \/ IngestEmbedFails
    \/ IngestGetCollection
    \/ IngestGetCollectionFails
    \/ IngestUpsert
    \/ IngestFinish

\* SpecIngest: ingest_upload of a generated document
SpecIngest == Init /\ [][NextIngest]_vars

ConcurrentCallAny ==
    \E first \in ConcurrentUploads, first_mode \in ChunkModes,
       second \in ConcurrentUploads, second_mode \in ChunkModes :
          ConcurrentCall(first, first_mode, second, second_mode)

NextConcurrent ==
    \/ ConcurrentCallAny
    \/ IngestEmbed
    \/ IngestEmbedFails
    \/ IngestGetCollection
    \/ IngestGetCollectionFails
    \/ FirstUpsert
    \/ SecondEmbed
    \/ SecondEmbedFails
    \/ SecondGetCollection
    \/ SecondUpsert
    \/ ConcurrentFinish

\* SpecConcurrent: two ingest_upload executions, their steps interleaved
SpecConcurrent == Init /\ [][NextConcurrent]_vars

\* how many paths one call of ingest_files is given
MaxBatch == 2

RECURSIVE ListsUpTo(_, _)
\* the lists of at most n members of S
ListsUpTo(S, n) ==
    IF n = 0 THEN {<<>>}
    ELSE LET shorter == ListsUpTo(S, n - 1)
         IN  shorter \cup {Append(list, x) : list \in shorter, x \in S}

BatchCallAny == \E paths \in ListsUpTo(Uploads, MaxBatch) : BatchCall(paths)

NextBatch ==
    \/ BatchCallAny
    \/ BatchIngestNext
    \/ IngestEmbed
    \/ IngestEmbedFails
    \/ IngestGetCollection
    \/ IngestGetCollectionFails
    \/ IngestUpsert
    \/ BatchCollect
    \/ BatchPropagate
    \/ BatchReturn
    \/ BatchFinish

\* SpecBatch: ingest_files on every short list of the uploads
SpecBatch == Init /\ [][NextBatch]_vars

\* the documents handed to add_document: the two of tests/test_tools.py
\* 62-77 shortened, one with padded fields and upper-case tags, and two that
\* are refused
DocumentInputs ==
    {[title |-> "NIST access", content |-> "least privilege Tyler",
      tags |-> <<"nist", "access">>],
     [title |-> "Patching", content |-> "Keep firmware",
      tags |-> <<"patch", "scada">>],
     [title |-> " Tyler ", content |-> " Firmware list\n", tags |-> <<"SCADA">>],
     [title |-> "  ", content |-> "least privilege", tags |-> <<>>],
     [title |-> "Tyler", content |-> "\n", tags |-> <<"nist">>]}

\* the queries handed to search: the one of the test, queries with a token
\* given more than once, in another case or inside a longer word, a query
\* that matches nothing and a query without a token
SearchQueries ==
    {"Tyler least privilege", "tyler tyler TYLER least privilege", "firmware  scada",
     "ACCESS\tpatch", "irrigation", " \n "}

AddDocumentAny ==
    \E input \in DocumentInputs : AddDocument(input.title, input.content, input.tags)

SearchCallAny ==
    \E query \in SearchQueries : \E limit \in 0..MaxLimit : SearchCall(query, limit)

NextStore == AddDocumentAny \/ SearchCallAny

\* SpecStore: add_document and search on one RAGStore
SpecStore == Init /\ [][NextStore]_vars

\* what the texts handed to _chunk_text are written with: two words of
\* different length, two blank-line separators, a blank and a line break
ParagraphPieces == {"a", "bc", "\n\n", "\n \n", " ", "\n"}

ParagraphTexts == {Join(pieces, "") : pieces \in ListsUpTo(ParagraphPieces, MaxPieces)}

InitParagraph ==
    /\ ChunkTextCalled(ParagraphTexts)
    /\ IndexFresh /\ IngestIdle /\ QueryIdle /\ BatchIdle /\ WriterIdle /\ ToolIdle

NextParagraph == ChunkTextReturns \/ ChunkTextLoops

\* SpecParagraph: _chunk_text, in either mode, on texts with blank lines
SpecParagraph == InitParagraph /\ [][NextParagraph]_vars

\* words that name threat categories (rag.py 17-27), tactics (rag.py 29-37,
\* "phishing" both) and indicators, one of them in two spellings
ProfileWords ==
    {"ransomware", "phishing", "script", "T1059.001", "CVE-2024-3400",
     "cve-2024-3400"}

\* the queries of SpecProfile: up to MaxWords of the words, in every order
\* and with repetitions, one blank between them
ProfileQueryArgs ==
    [query : {Join(words, " ") : words \in ListsUpTo(ProfileWords, MaxWords)},
     top_k : {1},
     retrieval_mode : {"vector"},
     doc_ids : {<<>>},
     required_threat_tags : {<<>>}]

QueryCallProfile == \E args \in ProfileQueryArgs : QueryCall(args)

NextProfile ==
    \/ QueryCallProfile
    \/ QueryGetCollection
    \/ QueryGetCollectionFails
    \/ QueryEmbed
    \/ QueryEmbedFails
    \/ QueryIndexQuery
    \/ QueryDispatch
    \/ QueryFinish

\* SpecProfile: query_rag on a new index, for the profile that
\* _extract_threat_profile gives of the query
SpecProfile == Init /\ [][NextProfile]_vars

(***************************************************************************)
(* Claims about the chunker.                                               *)
(***************************************************************************)
RECURSIVE DropOverlapAndJoin(_, _)
\* the first chunk followed by every later chunk without its first
\* `overlap` characters
DropOverlapAndJoin(chunks, overlap) ==
    IF chunks = <<>> THEN ""
    ELSE IF Len(chunks) = 1 THEN chunks[1]
    ELSE LET last == chunks[Len(chunks)]
         IN  DropOverlapAndJoin(SubSeq(chunks, 1, Len(chunks) - 1), overlap)
                \o SubSeq(last, overlap + 1, Len(last))

\* C6: fixed-mode chunking terminates for every chunk_size >= 1 and every
\* overlap >= 0: each iteration that does not reach the end of the text
\* moves the window start strictly forward.
C6_StartStrictlyIncreases ==
    [][(ch_pc = "loop" /\ ch_pc' = "loop") => ch_start' > ch_start]_vars

\* C7: for non-empty text and 0 <= overlap < chunk_size, the chunks with the
\* overlap duplication removed rebuild the text exactly, and the last chunk
\* ends at the final character of the text.
C7_ChunkCoverage ==
    (ch_pc = "done" /\ ch_text # "" /\ ch_overlap < ch_size) =>
        /\ ch_chunks # <<>>
        /\ DropOverlapAndJoin(ch_chunks, ch_overlap) = ch_text
        /\ ch_end = Len(ch_text)
        /\ LET last == ch_chunks[Len(ch_chunks)]
           IN  last = SubSeq(ch_text, Len(ch_text) - Len(last) + 1, Len(ch_text))

\* a run with overlapping windows over several chunks has finished
C7_Witness ==
    /\ ch_pc = "done"
    /\ ch_overlap > 0
    /\ ch_overlap < ch_size
    /\ Len(ch_chunks) >= 3

(***************************************************************************)
(* Claims about ingest_upload.                                             *)
(***************************************************************************)
\* the one upsert of a returned ingestion carries every chunk of the
\* document, with its id, embedding and metadata, and the index holds them
CarriesEveryChunk(payload) ==
    LET chunks == ChunkText(in_upload.text, DefaultChunkSize, DefaultOverlap, in_mode)
    IN  /\ payload.documents = chunks
        /\ Len(payload.ids) = Len(chunks)
        /\ Len(payload.embeddings) = Len(chunks)
        /\ Len(payload.metadatas) = Len(chunks)
        /\ \A i \in 1..Len(chunks) :
              /\ payload.ids[i] = ChunkId(in_upload.filename, i - 1)
              /\ payload.embeddings[i] = EmbedText(chunks[i])

\* C1: ingestion of one document is all-or-nothing.  When embed fails the
\* failure reaches the caller, no upsert was issued for the document and the
\* failing step leaves the index as it was; when ingest_upload returns,
\* exactly one upsert was issued and it carried every chunk; the stored
\* entries change with that upsert only.
C1_IngestAllOrNothing ==
    /\ [](in_pc = "raised" => in_out.kind = "raise" /\ in_upserts = <<>>)
    /\ [](in_pc = "returned" =>
            /\ in_out.kind = "return"
            /\ Len(in_upserts) = 1
            /\ CarriesEveryChunk(in_upserts[1]))
    /\ [][(in_pc = "embed" /\ in_pc' # "embed") =>
             \/ in_pc' = "raised" /\ in_out'.type = "RuntimeError" /\ UNCHANGED indexVars
             \/ in_pc' = "get_collection"
                  /\ in_embeddings' = [i \in 1..Len(in_chunks) |-> EmbedText(in_chunks[i])]]_vars
    /\ [][store' # store => in_pc = "upsert" /\ in_pc' = "returned"]_vars

\* embed has failed for a document of two chunks while the index holds the
\* chunks of an earlier ingestion
C1_Witness ==
    /\ in_pc = "raised"
    /\ in_out.type = "RuntimeError"
    /\ Len(in_chunks) = 2
    /\ DOMAIN store # {}

\* C12: the sanitized_preview in the metadata of every chunk of every
\* ingested document is at most 280 characters long.
C12_PreviewAtMost280 ==
    /\ \A i \in 1..Len(in_metas) :
          Len(in_metas[i].sanitized_preview) <= MetadataPreviewChars
    /\ \A id \in DOMAIN store :
          Len(store[id].metadata.sanitized_preview) <= MetadataPreviewChars

\* C14: when ingest_files is over, whether or not an ingestion failed on the
\* way, every path was worked through and the caller holds the list of the
\* summaries of the documents that were ingested.
C14_BatchSurvivesFailure ==
    b_pc \in {"returned", "raised"} =>
        /\ b_queue = <<>>
        /\ b_out = [kind |-> "return", result |-> b_results]

(***************************************************************************)
(* Claims about query_rag.                                                 *)
(***************************************************************************)
SupportedModes == {"vector", "hybrid", "intel"}

Returned == q_pc = "returned" /\ q_args.retrieval_mode \in SupportedModes

ReturnedHybrid == q_pc = "returned" /\ q_args.retrieval_mode \in {"hybrid", "intel"}

ReturnedHits == q_out.result.results

\* the candidate of the index answer a hit was made from
CandidateOf(hit) == CHOOSE c \in Range(q_results) : c.id = hit.id

InDocIds(metadata) ==
    /\ ~IsNone(metadata)
    /\ "doc_id" \in DOMAIN metadata
    /\ metadata.doc_id \in Range(q_args.doc_ids)

HasRequiredTags(metadata) ==
    /\ ~IsNone(metadata)
    /\ "threat_tags" \in DOMAIN metadata
    /\ Range(q_args.required_threat_tags) \subseteq Range(metadata.threat_tags)

CompleteMetadata(metadata) ==
    /\ ~IsNone(metadata)
    /\ {"doc_id", "threat_tags"} \subseteq DOMAIN metadata

\* C2: in every supported mode, with doc_ids non-empty every returned hit's
\* doc_id is in doc_ids, and with required_threat_tags non-empty every
\* returned hit's threat_tags include them all; a candidate without
\* metadata, or without the key that an active filter tests, is never
\* returned.
C2_FilterCorrectness ==
    Returned =>
        \A k \in 1..Len(ReturnedHits) :
            LET metadata == CandidateOf(ReturnedHits[k]).metadata
            IN  /\ q_args.doc_ids # <<>> => InDocIds(metadata)
                /\ q_args.required_threat_tags # <<>> => HasRequiredTags(metadata)

\* C2 as stated: moreover a candidate that lacks metadata or lacks any of
\* the keys is never returned while some filter is active.
C2_AsStated ==
    Returned =>
        \A k \in 1..Len(ReturnedHits) :
            LET metadata == CandidateOf(ReturnedHits[k]).metadata
            IN  /\ q_args.doc_ids # <<>> => InDocIds(metadata)
                /\ q_args.required_threat_tags # <<>> => HasRequiredTags(metadata)
                /\ (q_args.doc_ids # <<>> \/ q_args.required_threat_tags # <<>>)
                      => CompleteMetadata(metadata)

\* both filters are active, a hit is returned, and the index answer held a
\* candidate without metadata and one without the doc_id key
C2_Witness ==
    /\ Returned
    /\ q_args.doc_ids # <<>>
    /\ q_args.required_threat_tags # <<>>
    /\ ReturnedHits # <<>>
    /\ \E c \in Range(q_results) : IsNone(c.metadata)
    /\ \E c \in Range(q_results) : ~IsNone(c.metadata) /\ "doc_id" \notin DOMAIN c.metadata

\* C3: in every supported mode and for every filter setting, the returned
\* hit list is no longer than top_k, also when the index answers with more
\* candidates than it was asked for.
C3_TopKBound == Returned => Len(ReturnedHits) <= q_args.top_k

\* the index answered with more candidates than fetch_k, more than top_k of
\* them pass the filters, and top_k hits are returned
C3_Witness ==
    /\ ReturnedHybrid
    /\ Len(q_results) > FetchK(q_args.top_k)
    /\ Len(ReturnedHits) = q_args.top_k
    /\ Len(SelectSeq(q_results,
              LAMBDA c : PassesFilters(MetadataOrEmpty(c.metadata),
                             QueryOptions(q_args.top_k, q_args.retrieval_mode,
                                 q_args.doc_ids, q_args.required_threat_tags))))
          > q_args.top_k

\* C4: a call with a retrieval_mode other than vector, hybrid and intel ends
\* with a ValueError whose message holds "Unsupported retrieval mode" and
\* the mode, whether or not the embedding provider and the index are
\* available, and never with a result.
C4_UnsupportedModeRaisesValueError ==
    (q_pc \in {"returned", "raised"} /\ q_args.retrieval_mode \notin SupportedModes) =>
        /\ q_out.kind = "raise"
        /\ q_out.type = "ValueError"
        /\ Contains(q_out.message, "Unsupported retrieval mode")
        /\ Contains(q_out.message, q_args.retrieval_mode)

\* C5: no step of query_rag, in any mode, changes the index: the existing
\* collections and the stored entries are the same before and after.
C5_QueryLeavesIndexUnchanged ==
    [][q_pc' # q_pc => UNCHANGED indexVars]_vars

CurrentOptions ==
    QueryOptions(q_args.top_k, q_args.retrieval_mode, q_args.doc_ids,
                 q_args.required_threat_tags)

\* the candidates of the index answer that pass the filters, in the order
\* the index returned them
Survivors ==
    SelectSeq(q_results, LAMBDA c : PassesFilters(MetadataOrEmpty(c.metadata), CurrentOptions))

\* the composite score a hit reports for a candidate
CompositeScore(candidate) ==
    HybridHit(q_args.query, q_profile, CurrentOptions, candidate).score

\* where the index returned the candidate a hit was made from
PositionOf(hit) == CHOOSE j \in 1..Len(Survivors) : Survivors[j].id = hit.id

\* C8: in hybrid and intel mode the returned hits are filter-surviving
\* candidates in descending order of composite score, hits of equal score in
\* the order the index returned them, cut to top_k; a survivor that is left
\* out scores no higher than any returned hit, and one that scores the same
\* as a returned hit came later in the index answer.
C8_HybridRanking ==
    ReturnedHybrid =>
        LET hits == ReturnedHits
            kept == {PositionOf(hits[k]) : k \in 1..Len(hits)}
        IN  /\ Len(hits) = Min(q_args.top_k, Len(Survivors))
            /\ \A k \in 1..Len(hits) :
                  /\ \E j \in 1..Len(Survivors) : Survivors[j].id = hits[k].id
                  /\ hits[k].score = CompositeScore(Survivors[PositionOf(hits[k])])
            /\ Cardinality(kept) = Len(hits)
            /\ \A k \in 1..Len(hits), l \in 1..Len(hits) :
                  k < l =>
                     \/ hits[k].score > hits[l].score
                     \/ /\ hits[k].score = hits[l].score
                        /\ PositionOf(hits[k]) < PositionOf(hits[l])
            /\ \A j \in (1..Len(Survivors)) \ kept : \A k \in 1..Len(hits) :
                  \/ CompositeScore(Survivors[j]) < hits[k].score
                  \/ /\ CompositeScore(Survivors[j]) = hits[k].score
                     /\ PositionOf(hits[k]) < j

\* a hybrid call returned two hits that the sort had to reorder, and left
\* out a survivor whose score equals that of a returned hit
C8_Witness ==
    /\ ReturnedHybrid
    /\ Len(ReturnedHits) = 2
    /\ PositionOf(ReturnedHits[1]) > PositionOf(ReturnedHits[2])
    /\ \E j \in 1..Len(Survivors) :
          /\ \A k \in 1..Len(ReturnedHits) : Survivors[j].id # ReturnedHits[k].id
          /\ \E k \in 1..Len(ReturnedHits) :
                CompositeScore(Survivors[j]) = ReturnedHits[k].score

\* C9: every hit returned in hybrid or intel mode has a composite score
\* between 0 and semantic_weight + keyword_weight + threat_weight, whatever
\* the distance (negative ones included), the document and the metadata.
C9_HybridScoreBound ==
    ReturnedHybrid =>
        \A k \in 1..Len(ReturnedHits) :
            /\ ReturnedHits[k].score >= 0
            /\ ReturnedHits[k].score * WeightScale
                  <= (SemanticWeight + KeywordWeight + ThreatWeight) * Million

\* a hybrid call returned a hit of negative distance, and a hit whose
\* keyword and threat parts are not zero
C9_Witness ==
    /\ ReturnedHybrid
    /\ \E k \in 1..Len(ReturnedHits) : ReturnedHits[k].distance.n < 0
    /\ \E k \in 1..Len(ReturnedHits) :
          ReturnedHits[k].keyword_score > 0 /\ ReturnedHits[k].threat_score > 0

\* the composite score of a returned hit before it is rounded
UnroundedScore(hit) ==
    FinalScore(NormalizeSemanticScore(hit.distance),
               KeywordOverlap(q_args.query, CandidateOf(hit).document),
               ThreatAlignment(q_profile, hit.metadata),
               CurrentOptions)

\* C19 as stated: in hybrid mode with the default weights every returned
\* hit reports a score of at least 0.7 times the semantic_score it reports.
C19_AsStated ==
    ReturnedHybrid =>
        \A k \in 1..Len(ReturnedHits) :
            ReturnedHits[k].score * WeightScale
                >= SemanticWeight * ReturnedHits[k].semantic_score

\* C19: in hybrid mode with the default weights the composite score of
\* every returned hit is, before rounding, at least 0.7 times its semantic
\* score before rounding; the two reported values, each rounded to 6
\* decimals, satisfy score >= 0.7 * semantic_score - 0.0000008.
C19_ScoreAtLeastSemanticShare ==
    ReturnedHybrid =>
        \A k \in 1..Len(ReturnedHits) :
            /\ RatLeq(RatMul(Frac(SemanticWeight, WeightScale),
                             NormalizeSemanticScore(ReturnedHits[k].distance)),
                      UnroundedScore(ReturnedHits[k]))
            /\ ReturnedHits[k].score * WeightScale + 8
                  >= SemanticWeight * ReturnedHits[k].semantic_score

\* a hybrid call returned a hit whose reported score is below 0.7 times its
\* reported semantic_score, and a hit with a keyword part whose reported
\* score is above it
C19_Witness ==
    /\ ReturnedHybrid
    /\ \E k \in 1..Len(ReturnedHits) :
          ReturnedHits[k].score * WeightScale
              < SemanticWeight * ReturnedHits[k].semantic_score
    /\ \E k \in 1..Len(ReturnedHits) :
          /\ ReturnedHits[k].keyword_score > 0
          /\ ReturnedHits[k].score * WeightScale
                > SemanticWeight * ReturnedHits[k].semantic_score

ReturnedVector == q_pc = "returned" /\ q_args.retrieval_mode = "vector"

\* the semantic score a vector-mode hit reports for a candidate
SemanticScore(candidate) == VectorHit(candidate).score

\* C10: in vector mode, of two candidates with distances d1 < d2 the one
\* with d1 scores at least as high as the one with d2; every distance of 0
\* or less scores exactly 1; the score before rounding lies in (0, 1] and
\* the reported score in [0, 1].
C10_SemanticScoreMonotone ==
    ReturnedVector =>
        /\ \A k \in 1..Len(ReturnedHits) :
              ReturnedHits[k].score = SemanticScore(CandidateOf(ReturnedHits[k]))
        /\ \A c1 \in Range(q_results), c2 \in Range(q_results) :
              RatLess(c1.distance, c2.distance) => SemanticScore(c1) >= SemanticScore(c2)
        /\ \A c \in Range(q_results) :
              /\ RatLeq(c.distance, Zero) => SemanticScore(c) = Million
              /\ RatLess(Zero, NormalizeSemanticScore(c.distance))
              /\ RatLeq(NormalizeSemanticScore(c.distance), One)
              /\ SemanticScore(c) >= 0
              /\ SemanticScore(c) <= Million

\* C10 as stated: of two candidates with d1 < d2 the one with d1 scores
\* strictly higher, equal scores come from equal distances only, and every
\* score lies in (0, 1].
C10_AsStated ==
    ReturnedVector =>
        /\ \A c1 \in Range(q_results), c2 \in Range(q_results) :
              /\ RatLess(c1.distance, c2.distance) => SemanticScore(c1) > SemanticScore(c2)
              /\ SemanticScore(c1) = SemanticScore(c2) => c1.distance = c2.distance
        /\ \A c \in Range(q_results) :
              SemanticScore(c) > 0 /\ SemanticScore(c) <= Million

\* a vector call returned two hits of different distances and different
\* scores, out of an index answer that also held a negative distance
C10_Witness ==
    /\ ReturnedVector
    /\ Len(ReturnedHits) = 2
    /\ RatLess(ReturnedHits[1].distance, ReturnedHits[2].distance)
    /\ ReturnedHits[1].score > ReturnedHits[2].score
    /\ \E c \in Range(q_results) : c.distance.n < 0

\* C11: in vector mode the returned hits are exactly the first top_k
\* candidates, in the order the index returned them, that pass the filters
\* (all of them when fewer than top_k pass): nothing is reordered and no
\* passing candidate is skipped for a later one.
C11_VectorSelection ==
    ReturnedVector =>
        /\ Len(ReturnedHits) = Min(q_args.top_k, Len(Survivors))
        /\ \A k \in 1..Len(ReturnedHits) :
              /\ ReturnedHits[k].id = Survivors[k].id
              /\ ReturnedHits[k].distance = Survivors[k].distance
              /\ ReturnedHits[k].metadata = MetadataOrEmpty(Survivors[k].metadata)

\* a vector call returned top_k hits, one of them from behind a candidate
\* the filters rejected, and left a passing candidate out
C11_Witness ==
    /\ ReturnedVector
    /\ Len(ReturnedHits) = q_args.top_k
    /\ Len(Survivors) > q_args.top_k
    /\ \E i \in 1..Len(q_results), j \in 1..Len(q_results) :
          /\ i < j
          /\ ~PassesFilters(MetadataOrEmpty(q_results[i].metadata), CurrentOptions)
          /\ \E k \in 1..Len(ReturnedHits) : ReturnedHits[k].id = q_results[j].id

\* C13: in every supported mode the preview of a returned hit is
\* sanitize_text applied to the first 400 characters of the candidate's
\* document (PreviewOfCandidate holds that text for each document), and the other fields of the hit are the candidate's id, distance
\* and metadata and scores: the document enters the result through
\* sanitize_text only.
C13_PreviewIsRedacted ==
    Returned =>
        \A k \in 1..Len(ReturnedHits) :
            LET hit == ReturnedHits[k]
                candidate == CandidateOf(hit)
            IN  /\ hit.preview = PreviewOfCandidate[candidate.document]
                /\ hit.id = candidate.id
                /\ hit.distance = candidate.distance
                /\ hit.metadata = MetadataOrEmpty(candidate.metadata)
                /\ DOMAIN hit \subseteq {"id", "distance", "score", "semantic_score",
                                         "keyword_score", "threat_score", "metadata",
                                         "preview"}

\* a hit was returned for a document longer than 400 characters that names
\* a person, and one for a document that holds an e-mail address
C13_Witness ==
    /\ Returned
    /\ \E k \in 1..Len(ReturnedHits) :
          /\ Len(CandidateOf(ReturnedHits[k]).document) > HitPreviewChars
          /\ ReturnedHits[k].preview # Slice(CandidateOf(ReturnedHits[k]).document, 0, HitPreviewChars)
    /\ \E k \in 1..Len(ReturnedHits) :
          /\ Contains(CandidateOf(ReturnedHits[k]).document, "@")
          /\ Contains(ReturnedHits[k].preview, "<EMAIL>")

(***************************************************************************)
(* Claims about the calls ingest_upload and query_rag make.                 *)
(***************************************************************************)
\* how many of the calls are calls of one of the methods ops
Count(calls, ops) == Cardinality({i \in DOMAIN calls : calls[i].op \in ops})

\* the methods called, in order
Methods(calls) == [i \in DOMAIN calls |-> calls[i].op]

ProviderNotReady == Raised("RuntimeError", "sentence-transformers is not installed")

IndexNotLoadable == Raised("ModuleNotFoundError", "No module named 'chromadb'")

\* C15 as stated: every execution of ingest_upload or query_rag that is
\* over has called embed exactly once.
C15_AsStated ==
    /\ in_pc \in {"returned", "raised"} => Count(in_calls, {"embed"}) = 1
    /\ q_pc \in {"returned", "raised"} => Count(q_calls, {"embed"}) = 1

\* C15: no execution calls embed more than once or the index's upsert or
\* query more than once; an execution that returned made each of its calls
\* once, in the order of the code; one that raised because a collaborator
\* failed made no call after the failing one, wrote nothing, and its
\* outcome is that failure.  ingest_upload calls embed exactly once;
\* query_rag calls it exactly once unless obtaining the collection, which
\* comes first, failed, and then it does not call embed at all.
C15_NoRetries ==
    /\ Count(in_calls, {"embed"}) <= 1
    /\ Count(in_calls, {"upsert", "query"}) <= 1
    /\ Count(q_calls, {"embed"}) <= 1
    /\ Count(q_calls, {"upsert", "query"}) <= 1
    /\ in_pc = "returned" =>
          Methods(in_calls) = <<"embed", "get_or_create_collection", "upsert">>
    /\ in_pc = "raised" =>
          /\ in_upserts = <<>>
          /\ \/ in_out = ProviderNotReady /\ Methods(in_calls) = <<"embed">>
             \/ /\ in_out = IndexNotLoadable
                /\ Methods(in_calls) = <<"embed", "get_or_create_collection">>
    /\ q_pc = "returned" =>
          Methods(q_calls) = <<"get_or_create_collection", "embed", "query">>
    /\ q_pc = "raised" =>
          \/ q_out = IndexNotLoadable /\ Methods(q_calls) = <<"get_or_create_collection">>
          \/ /\ q_out = ProviderNotReady
             /\ Methods(q_calls) = <<"get_or_create_collection", "embed">>
          \/ /\ q_out.type = "ValueError"
             /\ Methods(q_calls) = <<"get_or_create_collection", "embed", "query">>

\* an ingest_upload that failed at embed next to a query_rag that failed
\* before it reached embed
C15_Witness ==
    /\ in_pc = "raised"
    /\ in_out = ProviderNotReady
    /\ q_pc = "raised"
    /\ q_out = IndexNotLoadable
    /\ Count(q_calls, {"embed"}) = 0

(***************************************************************************)
(* Claims about two ingest_upload executions at once.                       *)
(***************************************************************************)
\* the index after one more ingest_upload, which writes only if it returns
After(entries, returns, arguments) ==
    IF returns
       THEN Upsert(entries, arguments.ids, arguments.embeddings,
                   arguments.documents, arguments.metadatas)
    ELSE entries

\* what the first execution hands to the upsert
FirstArguments ==
    [ids |-> in_ids,
     embeddings |-> [i \in 1..Len(in_chunks) |-> EmbedText(in_chunks[i])],
     documents |-> in_chunks,
     metadatas |-> in_metas]

SecondArguments == w_args

BothRunning == in_pc # "idle" /\ w_pc # "idle"

BothOver == in_pc \in {"returned", "raised"} /\ w_pc \in {"returned", "raised"}

\* C16: while two executions with different document ids run, no chunk id
\* of one is a chunk id of the other; when both are over, however their
\* steps were interleaved, the index holds what it holds after the first
\* then the second, and after the second then the first.
C16_DifferentDocumentsCommute ==
    BothRunning /\ in_upload.filename # w_upload.filename =>
        /\ Range(FirstArguments.ids) \cap Range(SecondArguments.ids) = {}
        /\ BothOver =>
              /\ store = After(After(w_base, in_pc = "returned", FirstArguments),
                               w_pc = "returned", SecondArguments)
              /\ store = After(After(w_base, w_pc = "returned", SecondArguments),
                               in_pc = "returned", FirstArguments)

\* two documents with chunks were written next to each other into an index
\* that already held chunks, the second thread's write coming first
C16_Witness ==
    /\ in_pc = "returned"
    /\ w_pc = "returned"
    /\ in_upload.filename # w_upload.filename
    /\ in_ids # <<>>
    /\ SecondArguments.ids # <<>>
    /\ w_base # <<>>
    /\ w_last = "first"

\* C17: two executions for one document id take no lock and neither fails
\* because of the other: one that reached its upsert returns, and the only
\* failures are those of the provider and of the index backend.  When both
\* have returned, every chunk id both wrote holds the text, the embedding
\* and the metadata of the upsert that was applied last.
C17_LastWriterWins ==
    BothRunning /\ in_upload.filename = w_upload.filename =>
        /\ in_pc = "raised" => in_out \in {ProviderNotReady, IndexNotLoadable}
        /\ w_pc = "raised" => w_out = ProviderNotReady
        /\ in_pc = "returned" /\ w_pc = "returned" =>
              LET last == IF w_last = "second" THEN SecondArguments ELSE FirstArguments
              IN  /\ w_last \in {"first", "second"}
                  /\ \A i \in DOMAIN last.ids :
                        last.ids[i] \in Range(FirstArguments.ids) \cap
                                        Range(SecondArguments.ids) =>
                            store[last.ids[i]] = [embedding |-> last.embeddings[i],
                                                  document |-> last.documents[i],
                                                  metadata |-> last.metadatas[i]]

\* the same document id with two contents, both written, the second
\* thread's write applied last over the first thread's
C17_Witness ==
    /\ in_pc = "returned"
    /\ w_pc = "returned"
    /\ in_upload.filename = w_upload.filename
    /\ in_upload.text # w_upload.text
    /\ Range(in_ids) \cap Range(SecondArguments.ids) # {}
    /\ Len(in_ids) # Len(SecondArguments.ids)
    /\ w_last = "second"

\* C18: when the same document id with the same content is ingested twice
\* in the same chunk mode, one execution after the other or their steps
\* interleaved, the index ends as one ingestion alone leaves it, with
\* the same ids, texts, embeddings and metadata, and both executions
\* return the same summary.
C18_ReingestionIdempotent ==
    /\ in_pc = "returned"
    /\ w_pc = "returned"
    /\ in_upload = w_upload
    /\ in_mode = w_mode
    => /\ store = After(w_base, TRUE, FirstArguments)
       /\ in_out = w_out
       /\ in_out.result = Summary(in_upload, in_mode)

\* a document of two chunks ingested twice into an index that held other
\* content under one of its chunk ids
C18_Witness ==
    /\ in_pc = "returned"
    /\ w_pc = "returned"
    /\ in_upload = w_upload
    /\ in_mode = w_mode
    /\ Len(in_ids) = 2
    /\ in_ids[1] \in DOMAIN w_base
    /\ w_base[in_ids[1]].document # in_chunks[1]

(***************************************************************************)
(* Claims about the routes.                                                 *)
(***************************************************************************)
\* C20: when embed raises its not-ready error during ingest_upload or
\* query_rag, the route that awaited the call answers 503, as /embed
\* answers when the same error reaches it.
C20_ProviderUnavailableIs503 ==
    /\ EmbedRoute(ProviderNotReady).status = 503
    /\ in_pc = "raised" /\ in_out = ProviderNotReady =>
          RagIngestRoute(in_out).status = 503
    /\ q_pc = "raised" /\ q_out = ProviderNotReady =>
          RagQueryRoute(q_out).status = 503

(***************************************************************************)
(* Claims about the arguments of query_rag.                                 *)
(***************************************************************************)
\* C21: a call of query_rag with top_k <= 0, in any retrieval mode, never
\* returns a result; unless a collaborator failed first, it ends with a
\* ValueError.
C21_NonPositiveLimitRejected ==
    q_args.top_k <= 0 =>
        /\ q_pc # "returned"
        /\ q_pc = "raised" /\ q_out \notin {ProviderNotReady, IndexNotLoadable} =>
              q_out.type = "ValueError"


(***************************************************************************)
(* Claims about RAGStore.                                                  *)
(***************************************************************************)
\* the query's whitespace-separated tokens, lower case, one entry for every
\* time a token is written
QueryTokens(query) ==
    LET tokens == SplitWhitespace(query)
    IN  [i \in 1..Len(tokens) |-> LowerText(tokens[i])]

\* the token is found in the document's title, content or one of its tags,
\* whatever the case
HoldsToken(document, token) ==
    \/ Contains(LowerText(document.title), token)
    \/ Contains(LowerText(document.content), token)
    \/ \E i \in 1..Len(document.tags) : Contains(LowerText(document.tags[i]), token)

\* how many of the query's tokens the document holds
TokensHeld(document, query) ==
    Cardinality({i \in 1..Len(QueryTokens(query)) :
                   HoldsToken(document, QueryTokens(query)[i])})

SearchReturned == rs_call.op = "search" /\ rs_out.kind = "return"

\* C22: a search that returns gives at most `limit` documents, every one of
\* them a stored document that holds at least one of the query's
\* whitespace-separated tokens, case ignored, in its title, content or tags,
\* in non-increasing order of the number of query tokens held.
C22_SearchRanksMatchingDocuments ==
    SearchReturned =>
        /\ Len(rs_out.result) <= rs_call.limit
        /\ \A i \in 1..Len(rs_out.result) :
              /\ rs_out.result[i] \in Range(rs_documents)
              /\ TokensHeld(rs_out.result[i], rs_call.query) >= 1
        /\ \A i, j \in 1..Len(rs_out.result) :
              i < j => TokensHeld(rs_out.result[i], rs_call.query)
                          >= TokensHeld(rs_out.result[j], rs_call.query)

\* a search over three documents returned two of them, the first holding
\* more query tokens than the second although it was stored later, and left
\* out the one that holds none
C22_Witness ==
    /\ SearchReturned
    /\ Len(rs_documents) = 3
    /\ Len(rs_out.result) = 2
    /\ TokensHeld(rs_out.result[1], rs_call.query) > TokensHeld(rs_out.result[2], rs_call.query)
    /\ \E i, j \in 1..3 : i < j /\ rs_documents[j] = rs_out.result[1]
                                /\ rs_documents[i] = rs_out.result[2]
    /\ \E i \in 1..3 : TokensHeld(rs_documents[i], rs_call.query) = 0


(***************************************************************************)
(* Claims about _chunk_text in paragraph mode.                             *)
(***************************************************************************)
RECURSIVE LinesOf(_)
\* the lines of a text, the line breaks left out
LinesOf(text) ==
    LET breaks == {i \in 1..Len(text) : Ch(text, i) = "\n"}
    IN  IF breaks = {} THEN <<text>>
        ELSE <<SubSeq(text, 1, SetMin(breaks) - 1)>>
                \o LinesOf(SubSeq(text, SetMin(breaks) + 1, Len(text)))

\* a line of nothing but whitespace
IsBlankLine(line) == \A i \in 1..Len(line) : Ch(line, i) \in Whitespace

RECURSIVE GroupLines(_, _)
\* the runs of lines between blank lines, each run joined again and trimmed;
\* `current` is the run being read.  Only a blank line that has a line
\* before and a line after it separates; a run of whitespace alone is no
\* paragraph.
GroupLines(lines, current) ==
    LET closed == IF Strip(Join(current, "\n")) = "" THEN <<>>
                  ELSE <<Strip(Join(current, "\n"))>>
    IN  IF lines = <<>> THEN closed
        ELSE IF IsBlankLine(Head(lines)) /\ current # <<>> /\ Tail(lines) # <<>>
                THEN closed \o GroupLines(Tail(lines), <<>>)
        ELSE GroupLines(Tail(lines), Append(current, Head(lines)))

\* the paragraphs of a text: what stands between blank lines, trimmed
BlankLineParagraphs(text) == GroupLines(LinesOf(text), <<>>)

RECURSIVE ChunksOfParagraphs(_, _, _)
\* a paragraph that fits is one chunk, a longer one is replaced in place by
\* its fixed-mode chunks
ChunksOfParagraphs(paragraphs, chunk_size, overlap) ==
    IF paragraphs = <<>> THEN <<>>
    ELSE (IF Len(Head(paragraphs)) <= chunk_size THEN <<Head(paragraphs)>>
          ELSE ChunkText(Head(paragraphs), chunk_size, overlap, "fixed"))
            \o ChunksOfParagraphs(Tail(paragraphs), chunk_size, overlap)

\* C23: a paragraph-mode call that returns gives, in the order of the text,
\* one chunk for every trimmed non-empty paragraph between blank lines that
\* fits in chunk_size and the fixed-mode chunks of every longer one, nothing
\* for paragraphs of whitespace; an empty text gives no chunk in either mode.
C23_ParagraphModeChunks ==
    ch_pc = "done" =>
        /\ ch_mode = "paragraph" =>
              ch_chunks = ChunksOfParagraphs(BlankLineParagraphs(ch_text), ch_size, ch_overlap)
        /\ ch_text = "" => ch_chunks = <<>>

\* a paragraph-mode call returned the two fixed-mode chunks of a paragraph
\* that is too long, then a paragraph that fits, from a text with a blank
\* line of whitespace between them
C23_Witness ==
    /\ ch_pc = "done"
    /\ ch_mode = "paragraph"
    /\ ch_text = "bc\n \na"
    /\ ch_size = 1
    /\ ch_chunks = <<"b", "c", "a">>


\* C30: with chunk_size >= 1 and 0 <= overlap < chunk_size every chunk of a
\* call that returns, in either mode, is non-empty and at most chunk_size
\* characters long; in fixed mode every chunk but the last is exactly
\* chunk_size characters long, and the last, when it is not the only one,
\* is longer than the overlap.
C30_ChunkLengthBounds ==
    (ch_pc = "done" /\ ch_size >= 1 /\ 0 <= ch_overlap /\ ch_overlap < ch_size) =>
        /\ \A i \in 1..Len(ch_chunks) :
              Len(ch_chunks[i]) >= 1 /\ Len(ch_chunks[i]) <= ch_size
        /\ ch_mode = "fixed" =>
              /\ \A i \in 1..(Len(ch_chunks) - 1) : Len(ch_chunks[i]) = ch_size
              /\ Len(ch_chunks) > 1 => Len(ch_chunks[Len(ch_chunks)]) > ch_overlap

\* a fixed-mode call with a positive overlap returned several chunks, the
\* last of them shorter than chunk_size
C30_Witness ==
    /\ ch_pc = "done"
    /\ ch_mode = "fixed"
    /\ ch_overlap >= 1
    /\ ch_overlap < ch_size
    /\ Len(ch_chunks) >= 2
    /\ Len(ch_chunks[Len(ch_chunks)]) < ch_size


(***************************************************************************)
(* Claims about _extract_threat_profile.                                   *)
(***************************************************************************)
\* the place of a category in a declaration
PlaceIn(declaration, tag) == CHOOSE i \in 1..Len(declaration) : declaration[i] = tag

\* the members of the list are categories of the declaration, in the order
\* of the declaration, none twice
InDeclarationOrder(list, declaration) ==
    /\ \A i \in 1..Len(list) : list[i] \in Range(declaration)
    /\ \A i, j \in 1..Len(list) :
          i < j => PlaceIn(declaration, list[i]) < PlaceIn(declaration, list[j])

\* query_rag has taken the profile of its query
ProfileTaken == q_pc \in {"embed", "index_query", "dispatch", "returned"}

\* C24: the profile of a text lists exactly the threat categories and the
\* tactics whose pattern matches the text, in declaration order whatever
\* the order of the matches in the text; its indicators are the strings
\* matched, in lexicographic order, none twice; the profile is a function
\* of the text alone.
C24_ProfileShape ==
    ProfileTaken =>
        /\ InDeclarationOrder(q_profile.tags, THREAT_TAGS)
        /\ Range(q_profile.tags) =
              {tag \in Range(THREAT_TAGS) :
                 Search(THREAT_PATTERNS[tag], LowerText(q_args.query))}
        /\ InDeclarationOrder(q_profile.tactics, TACTIC_TAGS)
        /\ Range(q_profile.tactics) =
              {tag \in Range(TACTIC_TAGS) :
                 Search(TACTIC_PATTERNS[tag], LowerText(q_args.query))}
        /\ \A i \in 1..(Len(q_profile.indicators) - 1) :
              StrLess(q_profile.indicators[i], q_profile.indicators[i + 1])
        /\ Range(q_profile.indicators) =
              FindAllFrom(INDICATOR_PATTERN, q_args.query, LowerText(q_args.query), 0)
        /\ q_profile = ExtractThreatProfile(q_args.query)

\* the profile of a text that names phishing before ransomware and writes
\* one CVE id in lower case, then a technique, then the id in upper case
C24_Witness ==
    /\ q_pc = "returned"
    /\ q_args.query = "phishing ransomware"
    /\ q_profile.tags = <<"ransomware", "phishing">>
    /\ q_profile.tactics = <<"initial_access">>
    /\ q_out.result.threat_profile.tags = q_profile.tags

\* the indicators of a text that writes one CVE id in lower case, then a
\* technique, then the same id in upper case
C24_IndicatorsWitness ==
    /\ ProfileTaken
    /\ q_args.query = "cve-2024-3400 T1059.001 CVE-2024-3400"
    /\ q_profile.indicators = <<"CVE-2024-3400", "T1059.001", "cve-2024-3400">>


(***************************************************************************)
(* Claims about the candidates query_rag fetches.                          *)
(***************************************************************************)
\* the index queries the running query_rag has issued
IndexQueries == SelectSeq(q_calls, LAMBDA call : call.op = "query")

\* C25: query_rag never queries the index twice; a call that returns has
\* issued one index query, for max(top_k * 3, top_k) neighbours; the
\* candidates are at most that many, and every hit is one of them and
\* passes the filters.
C25_HitsComeFromWindow ==
    /\ Len(IndexQueries) <= 1
    /\ Returned =>
          /\ IndexQueries = <<Call("query", Max(q_args.top_k * 3, q_args.top_k))>>
          /\ Len(q_results) <= Max(q_args.top_k * 3, q_args.top_k)
          /\ \A k \in 1..Len(ReturnedHits) :
                \E i \in 1..Len(q_results) :
                    /\ q_results[i].id = ReturnedHits[k].id
                    /\ q_results[i].distance = ReturnedHits[k].distance
                    /\ PassesFilters(MetadataOrEmpty(q_results[i].metadata), CurrentOptions)

\* a call for one hit from the far document returned no hit: the three
\* candidates fetched are the chunks of the other document, while the chunk
\* of the far document is stored and is in the allow-list
C25_Witness ==
    /\ Returned
    /\ q_args.top_k = 1
    /\ q_args.doc_ids = <<"far.txt">>
    /\ Len(q_results) = 3
    /\ ReturnedHits = <<>>
    /\ "far.txt:0" \in DOMAIN store
    /\ PassesFilters(store["far.txt:0"].metadata, CurrentOptions)
    /\ \A i \in 1..Len(q_results) : q_results[i].id # "far.txt:0"


(***************************************************************************)
(* Claims about the parts of the hybrid score.                             *)
(***************************************************************************)
\* 1 / (1 + max(distance, 0))
SemanticPart(hit) ==
    RatDiv(One, RatAdd(One, IF RatLess(hit.distance, Zero) THEN Zero ELSE hit.distance))

\* the share of the query's tokens found among the document's tokens, 0 if
\* either has none
KeywordPart(hit) ==
    LET query_tokens == Tokenize(q_args.query)
        document_tokens == Tokenize(CandidateOf(hit).document)
    IN  IF query_tokens = {} \/ document_tokens = {} THEN Zero
        ELSE Frac(Cardinality({token \in query_tokens : token \in document_tokens}),
                  Cardinality(query_tokens))

\* the share of the query profile's tags found among the candidate's
\* threat_tags, 0 if either has none
ThreatPart(hit) ==
    LET query_tags == Range(q_profile.tags)
        candidate_tags == IF "threat_tags" \in DOMAIN hit.metadata
                             THEN Range(hit.metadata.threat_tags) ELSE {}
    IN  IF query_tags = {} \/ candidate_tags = {} THEN Zero
        ELSE Frac(Cardinality({tag \in query_tags : tag \in candidate_tags}),
                  Cardinality(query_tags))

InUnitInterval(x) == RatLeq(Zero, x) /\ RatLeq(x, One)

\* C26: in hybrid and intel mode the score of every returned hit is
\* semantic_weight * semantic + keyword_weight * keyword + threat_weight *
\* threat rounded to 6 decimals, semantic being 1 / (1 + max(distance, 0)),
\* keyword the share of the query's tokens among the document's tokens and
\* threat the share of the query profile's tags among the candidate's
\* threat_tags; each of the three lies in [0, 1] and is reported rounded
\* to 6 decimals.
C26_ScoreComposition ==
    ReturnedHybrid =>
        \A k \in 1..Len(ReturnedHits) :
            LET hit == ReturnedHits[k]
            IN  /\ hit.score =
                      Round6(RatAdd(RatAdd(RatMul(Frac(SemanticWeight, WeightScale),
                                                  SemanticPart(hit)),
                                           RatMul(Frac(KeywordWeight, WeightScale),
                                                  KeywordPart(hit))),
                                    RatMul(Frac(ThreatWeight, WeightScale), ThreatPart(hit))))
                /\ InUnitInterval(SemanticPart(hit))
                /\ InUnitInterval(KeywordPart(hit))
                /\ InUnitInterval(ThreatPart(hit))
                /\ hit.semantic_score = Round6(SemanticPart(hit))
                /\ hit.keyword_score = Round6(KeywordPart(hit))
                /\ hit.threat_score = Round6(ThreatPart(hit))

\* a hybrid or intel call returned a hit at a positive distance that holds
\* some but not all of the query's tokens and one of the query's tags, and
\* a hit without any
C26_Witness ==
    /\ ReturnedHybrid
    /\ \E k \in 1..Len(ReturnedHits) :
          /\ RatLess(Zero, ReturnedHits[k].distance)
          /\ RatLess(Zero, KeywordPart(ReturnedHits[k]))
          /\ RatLess(KeywordPart(ReturnedHits[k]), One)
          /\ RatLess(Zero, ThreatPart(ReturnedHits[k]))
    /\ \E k \in 1..Len(ReturnedHits) :
          KeywordPart(ReturnedHits[k]) = Zero /\ ThreatPart(ReturnedHits[k]) = Zero


(***************************************************************************)
(* Claims about what ingest_upload hands to the index.                     *)
(***************************************************************************)
\* C27: an ingest_upload that returned for a document of n chunks issued one
\* upsert with n ids, n embeddings, n documents and n metadata records, the
\* i-th of each belonging to the i-th chunk; the i-th id is
\* "{doc_id}:{i}" counting from zero, the ids are pairwise distinct, the
\* i-th metadata has doc_id = source = the document id and chunk_index = i,
\* and the summary reports chunks = n.
C27_UpsertShape ==
    in_pc = "returned" =>
        /\ Len(in_upserts) = 1
        /\ LET upsert == in_upserts[1]
               n == Len(in_chunks)
           IN  /\ Len(upsert.ids) = n
               /\ Len(upsert.embeddings) = n
               /\ Len(upsert.metadatas) = n
               /\ upsert.documents = in_chunks
               /\ \A i \in 1..n :
                     /\ upsert.ids[i] = in_upload.filename \o ":" \o ToString(i - 1)
                     /\ upsert.embeddings[i] = EmbedText(in_chunks[i])
                     /\ upsert.metadatas[i].doc_id = in_upload.filename
                     /\ upsert.metadatas[i].source = in_upload.filename
                     /\ upsert.metadatas[i].chunk_index = i - 1
                     /\ upsert.metadatas[i].hash = HashText(in_chunks[i])
               /\ \A i, j \in 1..n : i # j => upsert.ids[i] # upsert.ids[j]
               /\ in_out.result.chunks = n
               /\ in_out.result.doc_id = in_upload.filename

\* an ingest_upload returned for a document of three chunks
C27_Witness ==
    /\ in_pc = "returned"
    /\ Len(in_chunks) = 3
    /\ in_upserts[1].ids = <<"wide.txt:0", "wide.txt:1", "wide.txt:2">>
    /\ in_out.result.chunks = 3


\* C28: an ingest_upload of a document whose text yields no chunk makes no
\* upsert call to the index.
C28_NoUpsertWithoutChunks ==
    (in_pc # "idle" /\ Len(in_chunks) = 0) =>
        /\ Count(in_calls, {"upsert"}) = 0
        /\ in_upserts = <<>>


\* C29: no step of ingest_upload or query_rag removes an entry of the index,
\* and an upsert leaves every entry whose id it does not write as it was:
\* the chunks "{doc_id}:m" .. "{doc_id}:{n-1}" of an earlier, longer version
\* of a document stay stored when the document is ingested again with m
\* chunks, and query_rag can return them.
C29_StaleChunksSurvive ==
    [][\A id \in DOMAIN store :
          /\ id \in DOMAIN store'
          /\ id \notin Range(in_ids) => store'[id] = store[id]]_vars

\* notes.txt was ingested again with one chunk after an ingestion with two,
\* and a query returned the second chunk of the earlier version
C29_Witness ==
    /\ in_pc = "returned"
    /\ in_upload = [filename |-> "notes.txt", text |-> "password"]
    /\ in_upserts[1].ids = <<"notes.txt:0">>
    /\ "notes.txt:1" \in DOMAIN store
    /\ store["notes.txt:0"].document = "password"
    /\ store["notes.txt:1"].document = "c2"
    /\ Returned
    /\ \E k \in 1..Len(ReturnedHits) :
          /\ ReturnedHits[k].id = "notes.txt:1"
          /\ ReturnedHits[k].preview = "c2"
          /\ ReturnedHits[k].metadata.doc_id = "notes.txt"

====
